---- MODULE Spec2Model ----
(***************************************************************************)
(* Credential store and rotation executor of script-to-video               *)
(* (services/keyManager.ts, the file src/unnamed/part_001), with the error *)
(* handling of the application handlers that call it (App.tsx), and the    *)
(* WAV encoder pcmToWav (utils/audio.ts, the file src/unnamed/part_002).   *)
(*                                                                         *)
(* Strings that the code inspects (error messages) are sequences of words, *)
(* so that String.prototype.includes is a computed containment test.       *)
(***************************************************************************)
EXTENDS Integers, Sequences, FiniteSets, TLC

(* ------------------------------ bounds -------------------------------- *)

\* number of identifiers the model lets the store generate
MaxGen == 2
\* number of store operations the model runs once executeWithRotation has
\* been called
MaxMidCall == 1
\* length of the sample buffers drawn freely for the encoder
MaxSamples == 2
\* calls of executeWithRotation that are awaited at the same time at most
MaxCalls == 2

(* ------------------------------ values -------------------------------- *)

\* types.ts: AudioProvider
Providers == {"gemini", "elevenlabs"}

\* results an attempt of the operation can resolve with
Values == {"r1", "r2"}

\* sequence helpers (Array.prototype.map / some; filter is SelectSeq)
MapSeq(s, F(_)) == [i \in 1..Len(s) |-> F(s[i])]

SomeSeq(s, P(_)) == \E i \in 1..Len(s) : P(s[i])

\* String.prototype.includes on word sequences
Includes(msg, marker) ==
    \E i \in 1..(Len(msg) - Len(marker) + 1) :
        SubSeq(msg, i, i + Len(marker) - 1) = marker

(* ------------------------------ errors -------------------------------- *)

\* A thrown or rejected value: truthy says whether the value is truthy in
\* JavaScript, message is its .message (<<>> when it has none).
Err(msg) == [truthy |-> TRUE, message |-> msg]

\* null / undefined, also the initial value of lastError
NullErr == [truthy |-> FALSE, message |-> <<>>]

\* keyManager.ts:123
NoKeysMessage(provider) ==
    <<"No", "enabled", "API", "keys", "found", "for", provider \o ".",
      "Please", "add", "and", "enable", "a", "key", "in", "API", "Manager.">>

\* keyManager.ts:138
AllFailedMessage(provider) ==
    <<"All", "enabled", provider, "keys", "failed", "to", "execute", "request.">>

\* keyManager.ts:64
EmptyKeyMessage == <<"API", "Key", "cannot", "be", "empty">>

\* keyManager.ts:68
DuplicateMessage == <<"This", "API", "Key", "already", "exists.">>

\* App.tsx:38, 73, 97: the substring the handlers look for
NoKeysMarker == <<"No", "API", "keys">>

(* ------------------------------- store -------------------------------- *)

VARIABLES
    initRecord,      \* the localStorage record found by the constructor
    persisted,       \* the localStorage record 'scriptgenie_api_keys' now
    keys,            \* KeyManagerService.keys
    genCount,        \* identifiers generated so far
    thrown,          \* what the last store operation threw to its caller
    calls,           \* the executeWithRotation calls of the handlers, by slot
    midCallOps,      \* store operations run since the first call started
    isApiModalOpen,  \* App state: API key manager shown
    pcmData,         \* the Float32Array given to pcmToWav
    sampleRate,      \* its parameter sampleRate
    numChannels,     \* its parameter numChannels
    wav,             \* the bytes of the Blob it returned, <<>> before the call
    payload,         \* the PCM bytes the speech provider encoded as base64
    base64Audio,     \* gemini.ts:98 the inlineData.data of the response
    speech,          \* where the speech operation is, and what it threw
    activeTab,       \* ApiManagerModal state: the provider tab shown
    modalKeys,       \* ApiManagerModal state `keys`: the credentials listed
    deleteConfirmId, \* ApiManagerModal state: the credential awaiting confirmation
    timers,          \* the pending setTimeout callbacks of handleDeleteClick
    confirmAge,      \* milliseconds since deleteConfirmId was set to a credential
    segments,        \* App state: the script segments
    generatingAllAudio, \* App state: the generate-all-audio flag
    batch,           \* the running handleGenerateAllAudio: its closure and position
    generatingAllImages, \* App state: the generate-all-images flag
    imageBatch,      \* the running handleGenerateAllImages: its closure and position
    analysisCount    \* analyses that have produced a segment list so far

\* the variables of utils/audio.ts and of its caller in services/gemini.ts
audio == <<pcmData, sampleRate, numChannels, wav, payload, base64Audio, speech>>

\* the state of components/ApiManagerModal.tsx
modal == <<activeTab, modalKeys, deleteConfirmId, timers, confirmAge>>

\* the segment list of App.tsx and its two generate-all handlers
ui == <<segments, generatingAllAudio, batch, generatingAllImages, imageBatch,
       analysisCount>>

vars == <<initRecord, persisted, keys, genCount, thrown, calls, midCallOps,
          isApiModalOpen, audio, modal, ui>>

\* keyManager.ts:43, 72: `key-${Date.now()}-${random}`; the n-th identifier
\* generated differs from the earlier ones (later clock reading)
GenId(n) == "key-" \o ToString(n)

\* one element of the parsed JSON array; isObject = FALSE is a null element,
\* id = "" a missing identifier, hasIsEnabled = FALSE a missing isEnabled
RawEntry(id, key, provider, label, hasIsEnabled, isEnabled, isSystem) ==
    [isObject |-> TRUE, id |-> id, key |-> key, provider |-> provider,
     label |-> label, hasIsEnabled |-> hasIsEnabled, isEnabled |-> isEnabled,
     isSystem |-> isSystem]

NullEntry ==
    [isObject |-> FALSE, id |-> "", key |-> "", provider |-> "",
     label |-> "", hasIsEnabled |-> FALSE, isEnabled |-> FALSE,
     isSystem |-> FALSE]

\* a credential written by the current version
Saved(id, key, provider, isEnabled) ==
    RawEntry(id, key, provider, "Key " \o key \o "...", TRUE, isEnabled, FALSE)

\* localStorage contents: no item, text JSON.parse rejects, JSON that is
\* not an array, or an array
Absent     == [kind |-> "absent", entries |-> <<>>]
Unparsable == [kind |-> "unparsable", entries |-> <<>>]
NotArray   == [kind |-> "notArray", entries |-> <<>>]
Stored(entries) == [kind |-> "array", entries |-> entries]

\* keyManager.ts:108 JSON.stringify(this.keys)
Stringify(ks) ==
    Stored(MapSeq(ks, LAMBDA k :
        RawEntry(k.id, k.key, k.provider, k.label, TRUE, k.isEnabled, FALSE)))

\* keyManager.ts:21-26 the cleanup filter
KeepOnLoad(e) ==
    /\ e.isObject
    /\ ~e.isSystem
    /\ e.label # "System Default"
    /\ e.id # "sys-env-key"

\* mutant: the map leaves the enabled flag as it finds it
MigrateWithoutFlag(es, gen) ==
    [i \in 1..Len(es) |->
        [id |-> IF es[i].id = ""
                THEN GenId(gen + 1 + Cardinality({j \in 1..(i-1) : es[j].id = ""}))
                ELSE es[i].id,
         key |-> es[i].key,
         provider |-> es[i].provider,
         label |-> es[i].label,
         isEnabled |-> es[i].isEnabled]]

\* keyManager.ts:36-48 the migration map, gen identifiers generated before
Migrate(es, gen) ==
    [i \in 1..Len(es) |->
        [id |-> IF es[i].id = ""
                THEN GenId(gen + 1 + Cardinality({j \in 1..(i-1) : es[j].id = ""}))
                ELSE es[i].id,
         key |-> es[i].key,
         provider |-> es[i].provider,
         label |-> es[i].label,
         isEnabled |-> IF es[i].hasIsEnabled THEN es[i].isEnabled ELSE TRUE]]

NeedsMigration(es) ==
    \E i \in 1..Len(es) : ~es[i].hasIsEnabled \/ es[i].id = ""

\* mutant: loadKeys without its try/catch
LoadKeysUncaught(rec) ==
    IF rec.kind = "absent"
    THEN [keys |-> <<>>, persisted |-> rec, genCount |-> 0, thrown |-> NullErr]
    ELSE IF rec.kind = "unparsable"
    THEN [keys |-> <<>>, persisted |-> rec, genCount |-> 0,
          thrown |-> Err(<<"SyntaxError">>)]
    ELSE IF rec.kind # "array"
    THEN [keys |-> <<>>, persisted |-> rec, genCount |-> 0,
          thrown |-> Err(<<"TypeError">>)]
    ELSE LET kept == SelectSeq(rec.entries, KeepOnLoad)
             hasUpdates == Len(kept) # Len(rec.entries) \/ NeedsMigration(kept)
             migrated == Migrate(kept, 0)
         IN [keys |-> migrated,
             persisted |-> IF hasUpdates THEN Stringify(migrated) ELSE rec,
             genCount |-> Cardinality({i \in 1..Len(kept) : kept[i].id = ""}),
             thrown |-> NullErr]

\* keyManager.ts:12-57 loadKeys: the store, the record, the number of
\* generated identifiers and what the constructor throws after construction
LoadKeys(rec) ==
    IF rec.kind = "absent"
    THEN [keys |-> <<>>, persisted |-> rec, genCount |-> 0, thrown |-> NullErr]
    ELSE IF rec.kind # "array"
    THEN \* JSON.parse or .filter throws: caught (54-57), keys = []
         [keys |-> <<>>, persisted |-> rec, genCount |-> 0, thrown |-> NullErr]
    ELSE LET kept == SelectSeq(rec.entries, KeepOnLoad)
             hasUpdates == Len(kept) # Len(rec.entries) \/ NeedsMigration(kept)
             migrated == Migrate(kept, 0)
         IN [keys |-> migrated,
             persisted |-> IF hasUpdates THEN Stringify(migrated) ELSE rec,
             genCount |-> Cardinality({i \in 1..Len(kept) : kept[i].id = ""}),
             thrown |-> NullErr]

\* mutant: getKeys without the provider filter
GetKeysOfAll(provider) == keys

\* keyManager.ts:59-61
GetKeys(provider) == SelectSeq(keys, LAMBDA k : k.provider = provider)

\* keyManager.ts:107-109
SaveKeys(ks) == Stringify(ks)

\* mutant: the key material is tested without trimming it
TrimNothing(key) == key

\* String.prototype.trim on the key materials of the model
Trim(key) ==
    CASE key = " " -> ""
      [] key = " A " -> "A"
      [] OTHER -> key

\* String.prototype.substring(0, 4) on the key materials of the model
Prefix4(key) == IF key = "sk-long-key" THEN "sk-l" ELSE key

\* key material addKey is called with under StoreSpec: also empty and blank
AddInputs == {"A", "B", "sk-long-key", "", " "}

\* labels addKey is called with; "" is an omitted label
Labels == {"", "Work", "System Default"}

\* keyManager.ts:67 the duplicate test
IsDuplicate(key, provider) ==
    SomeSeq(keys, LAMBDA k : k.key = key /\ k.provider = provider)

\* mutant: the default label carries the whole key material
NewKeyLabelledByKey(id, key, provider, label) ==
    [id |-> id, key |-> key, provider |-> provider,
     label |-> IF label # "" THEN label ELSE "Key " \o key \o "...",
     isEnabled |-> TRUE]

\* keyManager.ts:74-80
NewKey(id, key, provider, label) ==
    [id |-> id, key |-> key, provider |-> provider,
     label |-> IF label # "" THEN label ELSE "Key " \o Prefix4(key) \o "...",
     isEnabled |-> TRUE]

\* the calls of executeWithRotation the model keeps: those that are awaited,
\* which overlap, and the latest finished ones
Slots == 1..MaxCalls

\* executeWithRotation has been called
SomeCall == \E s \in Slots : calls[s].pc # "idle"

\* a store operation that runs after the start of a call is counted
CountMidCall ==
    /\ SomeCall => midCallOps < MaxMidCall
    /\ midCallOps' = IF SomeCall THEN midCallOps + 1 ELSE midCallOps

\* mutant: the duplicate is reported after the credential was appended
AddKeyThenCheck(key, provider, label) ==
    /\ IF Trim(key) = ""
       THEN /\ thrown' = Err(EmptyKeyMessage)
            /\ UNCHANGED <<keys, persisted, genCount>>
       ELSE /\ genCount < MaxGen
            /\ keys' = keys \o <<NewKey(GenId(genCount + 1), key, provider, label)>>
            /\ genCount' = genCount + 1
            /\ persisted' = SaveKeys(keys')
            /\ thrown' = IF IsDuplicate(key, provider)
                         THEN Err(DuplicateMessage) ELSE NullErr
    /\ CountMidCall
    /\ UNCHANGED <<audio, modal, ui, initRecord, calls, isApiModalOpen>>

\* keyManager.ts:63-85
AddKey(key, provider, label) ==
    /\ IF Trim(key) = ""
       THEN /\ thrown' = Err(EmptyKeyMessage)
            /\ UNCHANGED <<keys, persisted, genCount>>
       ELSE IF IsDuplicate(key, provider)
       THEN /\ thrown' = Err(DuplicateMessage)
            /\ UNCHANGED <<keys, persisted, genCount>>
       ELSE /\ genCount < MaxGen
            /\ keys' = keys \o <<NewKey(GenId(genCount + 1), key, provider, label)>>
            /\ genCount' = genCount + 1
            /\ persisted' = SaveKeys(keys')
            /\ thrown' = NullErr
    /\ CountMidCall
    /\ UNCHANGED <<audio, modal, ui, initRecord, calls, isApiModalOpen>>

\* mutant: the last credential is dropped, whatever the identifier
RemovedLast(ks, id) == SubSeq(ks, 1, Len(ks) - 1)

\* keyManager.ts:89 the filter of removeKey
Removed(ks, id) == SelectSeq(ks, LAMBDA k : k.id # id)

\* keyManager.ts:87-98
RemoveKey(id) ==
    /\ keys' = Removed(keys, id)
    /\ persisted' = SaveKeys(keys')
    /\ thrown' = NullErr
    /\ CountMidCall
    /\ UNCHANGED <<audio, modal, ui, initRecord, genCount, calls, isApiModalOpen>>

\* mutant: the credential is enabled instead of toggled
ToggledOn(ks, id) ==
    MapSeq(ks, LAMBDA k : IF k.id = id THEN [k EXCEPT !.isEnabled = TRUE] ELSE k)

\* keyManager.ts:101-103 the map of toggleKeyStatus
Toggled(ks, id) ==
    MapSeq(ks, LAMBDA k :
        IF k.id = id THEN [k EXCEPT !.isEnabled = ~k.isEnabled] ELSE k)

\* keyManager.ts:100-105
ToggleKeyStatus(id) ==
    /\ keys' = Toggled(keys, id)
    /\ persisted' = SaveKeys(keys')
    /\ thrown' = NullErr
    /\ CountMidCall
    /\ UNCHANGED <<audio, modal, ui, initRecord, genCount, calls, isApiModalOpen>>

\* identifiers the callers pass: those of the store and one of no credential
IdsInStore == {keys[i].id : i \in 1..Len(keys)}
IdInputs == IdsInStore \cup {"key-0"}

(* ------------------------- rotation executor -------------------------- *)

\* values an attempt of the operation can reject with: an ordinary Error,
\* null, and an Error that carries the text of keyManager.ts:123
Rejections(provider) ==
    {Err(<<"Quota", "exceeded">>), NullErr, Err(NoKeysMessage(provider))}

\* the handler that called the executor and the segment it was called for
Caller(handler, id) == [handler |-> handler, id |-> id]

\* no segment: handleAnalyze is not called for a segment
NoSegment == ""

IdleCall ==
    [pc |-> "idle", caller |-> Caller("", NoSegment), provider |-> "", keysAtCall |-> <<>>,
     availableKeys |-> <<>>, idx |-> 0, lastError |-> NullErr,
     inflight |-> {}, attempts |-> <<>>, settled |-> <<>>,
     lastFailure |-> NullErr, resolved |-> "", result |-> "",
     thrown |-> NullErr, failure |-> ""]

\* mutant: the pool without the isEnabled filter
AvailableKeysWithDisabled(provider) == GetKeys(provider)

\* keyManager.ts:120
AvailableKeys(provider) == SelectSeq(GetKeys(provider), LAMBDA k : k.isEnabled)

\* keyManager.ts:138
FinalError(lastError, provider) ==
    IF lastError.truthy THEN lastError ELSE Err(AllFailedMessage(provider))

\* keyManager.ts:134
RecordError(lastError, error) == error

\* mutant: the iteration skips a credential
NextIndexSkipping(idx) == idx + 2

\* keyManager.ts:128 the credential a for...of iteration moves to
NextIndex(idx) == idx + 1

\* App.tsx:38, 73, 97
HasNoKeysMarker(error) ==
    error.message # <<>> /\ Includes(error.message, NoKeysMarker)

\* App.tsx:35-44, 71-78, 95-102 the catch clause of the three handlers
Catch(error) == IF HasNoKeysMarker(error) THEN TRUE ELSE isApiModalOpen

\* ApiManagerModal.tsx:16 useState<string | null>(null)
NoConfirm == ""

\* ApiManagerModal.tsx:18-23 the effect on [isOpen, activeTab] in a step that
\* leaves the tab alone: it runs when the manager goes from closed to open
UseEffect ==
    IF isApiModalOpen' /\ ~isApiModalOpen
    THEN /\ modalKeys' = GetKeys(activeTab)
         /\ deleteConfirmId' = NoConfirm
         /\ confirmAge' = 0
         /\ UNCHANGED <<activeTab, timers>>
    ELSE UNCHANGED modal

(* ---------------- App.tsx: the segment list and its handlers ------------- *)

\* analyses that produce a segment list at most
MaxAnalyses == 2

\* App.tsx:25 `seg-${Date.now()}-${index}`: the identifiers of the n-th
\* analysis differ from those of the earlier ones (later clock reading)
SegId(n, index) == "seg-" \o ToString(n) \o "-" \o ToString(index)

\* a segment without audio: audioUrl is undefined
NoUrl == ""

\* a segment whose audio no provider has generated: provider is undefined
NoProvider == ""

\* App.tsx:24-31 a segment of the list, here with the audio it may have; it
\* has no image (imageUrl is undefined) and no provider
Segment(id, audioUrl) ==
    [id |-> id, audioUrl |-> audioUrl, isGeneratingAudio |-> FALSE,
     provider |-> NoProvider, imageUrl |-> NoUrl, isGeneratingImage |-> FALSE]

\* the number of items of the analysis result v (gemini.ts:9-74)
Items(v) == IF v = "r1" THEN 1 ELSE 2

\* App.tsx:24-31 newSegments of the n-th analysis, which resolved with v
NewSegments(n, v) == [i \in 1..Items(v) |-> Segment(SegId(n, i - 1), NoUrl)]

\* SegmentItem.tsx:93-143 the audio buttons of the segments shown, each with
\* the provider it passes: a segment without audio shows Generate Voice,
\* which passes the provider selected (96-103) and is disabled while the
\* segment is generating (109); a segment with audio shows Regenerate Voice,
\* which passes segment.provider || 'gemini' and is never disabled (137-143)
AudioButtons ==
    {b \in {<<segments[i].id, p, i>> : i \in 1..Len(segments), p \in Providers} :
        IF segments[b[3]].audioUrl = NoUrl
        THEN ~segments[b[3]].isGeneratingAudio
        ELSE b[2] = IF segments[b[3]].provider # NoProvider
                    THEN segments[b[3]].provider ELSE "gemini"}

\* SegmentItem.tsx:65-84 the image buttons of the segments shown: a segment
\* without image shows Generate Image, which is disabled while the segment
\* is generating (68); a segment with image shows Regenerate Image, which is
\* never disabled (77-83)
ImageButtons ==
    {segments[i].id : i \in {j \in 1..Len(segments) :
        segments[j].imageUrl # NoUrl \/ ~segments[j].isGeneratingImage}}

\* no handleGenerateAllAudio (handleGenerateAllImages) is running; slot is
\* the call of the generation it awaits, 0 when it awaits none
IdleBatch ==
    [pc |-> "idle", pendingSegments |-> <<>>, started |-> <<>>, done |-> <<>>,
     slot |-> 0]

\* App.tsx:107 segments.filter(s => !s.audioUrl)
PendingSegments(segs) == SelectSeq(segs, LAMBDA s : s.audioUrl = NoUrl)

\* App.tsx:51 prev.map(s => s.id === id ? { ...s, isGeneratingAudio: true } : s)
MarkGenerating(segs, id) ==
    MapSeq(segs, LAMBDA s :
        IF s.id = id THEN [s EXCEPT !.isGeneratingAudio = TRUE] ELSE s)

\* App.tsx:62-70 URL.createObjectURL(wavBlob) stored in the segment
StoreAudio(segs, id, blob, provider) ==
    MapSeq(segs, LAMBDA s :
        IF s.id = id
        THEN [s EXCEPT !.isGeneratingAudio = FALSE, !.audioUrl = "blob:" \o blob,
                       !.provider = provider]
        ELSE s)

\* App.tsx:77 prev.map(s => s.id === id ? { ...s, isGeneratingAudio: false } : s)
ClearGenerating(segs, id) ==
    MapSeq(segs, LAMBDA s :
        IF s.id = id THEN [s EXCEPT !.isGeneratingAudio = FALSE] ELSE s)

\* App.tsx:118 segments.filter(s => !s.imageUrl)
PendingImages(segs) == SelectSeq(segs, LAMBDA s : s.imageUrl = NoUrl)

\* App.tsx:85 prev.map(s => s.id === id ? { ...s, isGeneratingImage: true } : s)
MarkGeneratingImage(segs, id) ==
    MapSeq(segs, LAMBDA s :
        IF s.id = id THEN [s EXCEPT !.isGeneratingImage = TRUE] ELSE s)

\* App.tsx:90-94 the image URL the generation returned stored in the segment
StoreImage(segs, id, imageUrl) ==
    MapSeq(segs, LAMBDA s :
        IF s.id = id
        THEN [s EXCEPT !.isGeneratingImage = FALSE, !.imageUrl = imageUrl]
        ELSE s)

\* App.tsx:101 prev.map(s => s.id === id ? { ...s, isGeneratingImage: false } : s)
ClearGeneratingImage(segs, id) ==
    MapSeq(segs, LAMBDA s :
        IF s.id = id THEN [s EXCEPT !.isGeneratingImage = FALSE] ELSE s)

\* the segment list after the code that follows the await of the handler
\* that made the call c, now finished: handleAnalyze replaces the list
\* (App.tsx:24-33, n-th analysis), handleGenerateAudio stores the audio
\* (62-70) or clears the flag in its catch clause (77), handleGenerateImage
\* stores the image (90-94) or clears the flag in its catch clause (101)
SettledSegments(segs, c, n) ==
    CASE c.caller.handler = "analyze" ->
             IF c.pc = "returned" THEN NewSegments(n, c.result) ELSE segs
      [] c.caller.handler = "audio" ->
             IF c.pc = "returned" THEN StoreAudio(segs, c.caller.id, c.result, c.provider)
                                  ELSE ClearGenerating(segs, c.caller.id)
      [] c.caller.handler = "image" ->
             IF c.pc = "returned" THEN StoreImage(segs, c.caller.id, c.result)
                                  ELSE ClearGeneratingImage(segs, c.caller.id)
      [] OTHER -> segs

\* mutant: a handleGenerateAudio that lets the failure out, which ends
\* handleGenerateAllAudio at its await
SettledBatchRethrowing(b, s, c) ==
    IF b.pc = "generating" /\ b.slot = s
    THEN [b EXCEPT !.pc = IF c.pc = "returned" THEN "delay" ELSE "idle",
                   !.done = Append(@, c.pc = "returned"),
                   !.slot = 0]
    ELSE b

\* App.tsx:110-111 handleGenerateAllAudio (121-122 handleGenerateAllImages)
\* after the generation it awaits, the call c of slot s, has settled with
\* success or with the failure caught (71-78, 95-102): it goes on to its
\* delay; the settling of any other call leaves it where it is
SettledBatch(b, s, c) ==
    IF b.pc = "generating" /\ b.slot = s
    THEN [b EXCEPT !.pc = "delay", !.done = Append(@, c.pc = "returned"),
                   !.slot = 0]
    ELSE b

\* the code of an App handler after its await, in the step in which its
\* call, that of slot s, finishes
AfterAwait(s) ==
    IF calls'[s].pc \in {"returned", "thrown"}
    THEN /\ segments' = SettledSegments(segments, calls'[s], analysisCount + 1)
         /\ analysisCount' =
                IF calls'[s].caller.handler = "analyze" /\ calls'[s].pc = "returned"
                THEN analysisCount + 1 ELSE analysisCount
         /\ batch' = SettledBatch(batch, s, calls'[s])
         /\ imageBatch' = SettledBatch(imageBatch, s, calls'[s])
         /\ UNCHANGED <<generatingAllAudio, generatingAllImages>>
    ELSE UNCHANGED ui

\* the slot a new call of executeWithRotation takes: the first one whose
\* call is not awaited
FreeSlot(s) ==
    /\ calls[s].pc # "await"
    /\ \A t \in Slots : t < s => calls[t].pc = "await"

\* mutant: every credential of the pool is attempted at once
ExecuteAllAtOnce(s, caller, provider) ==
    /\ FreeSlot(s)
    /\ LET availableKeys == AvailableKeys(provider)
           fresh == [IdleCall EXCEPT !.caller = caller, !.provider = provider,
                                     !.keysAtCall = keys,
                                     !.availableKeys = availableKeys]
       IN IF Len(availableKeys) = 0
          THEN /\ calls' = [calls EXCEPT ![s] =
                              [fresh EXCEPT !.pc = "thrown",
                                            !.thrown = Err(NoKeysMessage(provider)),
                                            !.failure = "NoKeysAvailable"]]
               /\ isApiModalOpen' = Catch(calls'[s].thrown)
          ELSE /\ calls' = [calls EXCEPT ![s] =
                              [fresh EXCEPT !.pc = "await", !.idx = Len(availableKeys),
                                            !.inflight = 1..Len(availableKeys),
                                            !.attempts = MapSeq(availableKeys, LAMBDA k : k.key)]]
               /\ UNCHANGED isApiModalOpen
    /\ UNCHANGED midCallOps
    /\ UseEffect
    /\ UNCHANGED <<audio, initRecord, persisted, keys, genCount, thrown>>

\* keyManager.ts:115-130 from the call to the first await (or the throw of
\* line 123), inside the try block of an App handler; s is the slot of the
\* call
ExecuteWithRotation(s, caller, provider) ==
    /\ FreeSlot(s)
    /\ LET availableKeys == AvailableKeys(provider)
           fresh == [IdleCall EXCEPT !.caller = caller, !.provider = provider,
                                     !.keysAtCall = keys,
                                     !.availableKeys = availableKeys]
       IN IF Len(availableKeys) = 0
          THEN /\ calls' = [calls EXCEPT ![s] =
                              [fresh EXCEPT !.pc = "thrown",
                                            !.thrown = Err(NoKeysMessage(provider)),
                                            !.failure = "NoKeysAvailable"]]
               /\ isApiModalOpen' = Catch(calls'[s].thrown)
          ELSE /\ calls' = [calls EXCEPT ![s] =
                              [fresh EXCEPT !.pc = "await", !.idx = 1,
                                            !.inflight = {1},
                                            !.attempts = <<availableKeys[1].key>>]]
               /\ UNCHANGED isApiModalOpen
    /\ UNCHANGED midCallOps
    /\ UseEffect
    /\ UNCHANGED <<audio, initRecord, persisted, keys, genCount, thrown>>

\* the handleAnalyze calls that are awaited
AnalysesAwaited ==
    Cardinality({s \in Slots : calls[s].pc = "await"
                               /\ calls[s].caller.handler = "analyze"})

\* App.tsx:269 isLoading={status === ProcessingStatus.ANALYZING}: the status
\* is ANALYZING from line 20 until the analysis has settled (34, 37), and
\* ScriptInput.tsx:114 disables the analyse button meanwhile
IsLoading == AnalysesAwaited > 0

\* App.tsx:19-45 handleAnalyze with gemini.ts:9-74, up to its await or
\* through its catch clause when the rotation throws at once
HandleAnalyze ==
    /\ analysisCount + AnalysesAwaited < MaxAnalyses
    /\ \E s \in Slots : ExecuteWithRotation(s, Caller("analyze", NoSegment), "gemini")
    /\ UNCHANGED ui

\* App.tsx:51-78 handleGenerateAudio from line 51 to its await, with
\* gemini.ts:79-111 and elevenlabs.ts, or through its catch clause when the
\* rotation throws at once; s is the slot of its call
GenerateAudio(s, id, provider) ==
    /\ ExecuteWithRotation(s, Caller("audio", id), provider)
    /\ segments' = IF calls'[s].pc = "thrown"
                   THEN SettledSegments(MarkGenerating(segments, id), calls'[s],
                                        analysisCount)
                   ELSE MarkGenerating(segments, id)
    /\ UNCHANGED analysisCount

\* App.tsx:47-79 handleGenerateAudio from a segment's own button: nothing
\* happens when the list has no segment of that identifier (48-49)
HandleGenerateAudio(id, provider) ==
    /\ \E i \in 1..Len(segments) : segments[i].id = id
    /\ \E s \in Slots : GenerateAudio(s, id, provider)
    /\ UNCHANGED <<generatingAllAudio, batch, generatingAllImages, imageBatch>>

\* App.tsx:85-102 handleGenerateImage from line 85 to its await, with
\* gemini.ts:116-153, or through its catch clause when the rotation throws
\* at once; s is the slot of its call
GenerateImage(s, id) ==
    /\ ExecuteWithRotation(s, Caller("image", id), "gemini")
    /\ segments' = IF calls'[s].pc = "thrown"
                   THEN SettledSegments(MarkGeneratingImage(segments, id), calls'[s],
                                        analysisCount)
                   ELSE MarkGeneratingImage(segments, id)
    /\ UNCHANGED analysisCount

\* App.tsx:81-103 handleGenerateImage from a segment's own button: nothing
\* happens when the list has no segment of that identifier (82-83)
HandleGenerateImage(id) ==
    /\ \E i \in 1..Len(segments) : segments[i].id = id
    /\ \E s \in Slots : GenerateImage(s, id)
    /\ UNCHANGED <<generatingAllAudio, batch, generatingAllImages, imageBatch>>

\* mutant: the value of the attempt is kept but the loop goes on (no return)
AttemptResolvesAndGoesOn(s, i, v) ==
    LET call == calls[s] IN
    /\ call.pc = "await"
    /\ i \in call.inflight
    /\ LET ok == [call EXCEPT !.result = v, !.resolved = v,
                              !.inflight = @ \ {i},
                              !.settled = Append(@, TRUE)]
           next == NextIndex(call.idx)
       IN calls' = [calls EXCEPT ![s] =
                    IF next <= Len(call.availableKeys)
                  THEN [ok EXCEPT !.idx = next, !.inflight = @ \cup {next},
                                  !.attempts = Append(@, call.availableKeys[next].key)]
                  ELSE [ok EXCEPT !.pc = "returned"]]
    /\ AfterAwait(s)
    /\ UNCHANGED <<audio, modal, initRecord, persisted, keys, genCount, thrown, midCallOps,
                   isApiModalOpen>>

\* keyManager.ts:130 the awaited attempt resolves: return its value
AttemptResolves(s, i, v) ==
    LET call == calls[s] IN
    /\ call.pc = "await"
    /\ i \in call.inflight
    /\ calls' = [calls EXCEPT ![s] =
                    [call EXCEPT !.pc = "returned", !.result = v,
                            !.resolved = v,
                            !.inflight = @ \ {i},
                            !.settled = Append(@, TRUE)]]
    /\ AfterAwait(s)
    /\ UNCHANGED <<audio, modal, initRecord, persisted, keys, genCount, thrown, midCallOps,
                   isApiModalOpen>>

\* a catch clause that rotates only on a truthy rejection value
AttemptRejectsStoppingOnNull(s, i, error) ==
    LET call == calls[s] IN
    /\ call.pc = "await"
    /\ i \in call.inflight
    /\ LET lastError == error
           failed == [call EXCEPT !.lastError = lastError,
                                  !.lastFailure = error,
                                  !.inflight = @ \ {i},
                                  !.settled = Append(@, FALSE)]
           next == call.idx + 1
       IN IF error.truthy /\ next <= Len(call.availableKeys)
          THEN /\ calls' = [calls EXCEPT ![s] =
                    [failed EXCEPT !.idx = next,
                                         !.inflight = @ \cup {next},
                                         !.attempts = Append(@, call.availableKeys[next].key)]]
               /\ UNCHANGED isApiModalOpen
          ELSE /\ calls' = [calls EXCEPT ![s] =
                    [failed EXCEPT !.pc = "thrown",
                                         !.thrown = FinalError(lastError, call.provider),
                                         !.failure = "AllAttemptsFailed"]]
               /\ isApiModalOpen' = Catch(calls'[s].thrown)
    /\ UseEffect
    /\ AfterAwait(s)
    /\ UNCHANGED <<audio, initRecord, persisted, keys, genCount, thrown, midCallOps>>

\* an executor that reads the store again before each further attempt
AttemptRejectsReadingStore(s, i, error) ==
    LET call == calls[s] IN
    /\ call.pc = "await"
    /\ i \in call.inflight
    /\ LET lastError == error
           availableKeys == AvailableKeys(call.provider)
           failed == [call EXCEPT !.lastError = lastError,
                                  !.lastFailure = error,
                                  !.inflight = @ \ {i},
                                  !.settled = Append(@, FALSE)]
           next == call.idx + 1
       IN IF next <= Len(availableKeys)
          THEN /\ calls' = [calls EXCEPT ![s] =
                    [failed EXCEPT !.idx = next,
                                         !.inflight = @ \cup {next},
                                         !.attempts = Append(@, availableKeys[next].key)]]
               /\ UNCHANGED isApiModalOpen
          ELSE /\ calls' = [calls EXCEPT ![s] =
                    [failed EXCEPT !.pc = "thrown",
                                         !.thrown = FinalError(lastError, call.provider),
                                         !.failure = "AllAttemptsFailed"]]
               /\ isApiModalOpen' = Catch(calls'[s].thrown)
    /\ UseEffect
    /\ AfterAwait(s)
    /\ UNCHANGED <<audio, initRecord, persisted, keys, genCount, thrown, midCallOps>>

\* an executor that disables the credential whose attempt failed
AttemptRejectsDisablingKey(s, i, error) ==
    LET call == calls[s] IN
    /\ call.pc = "await"
    /\ i \in call.inflight
    /\ LET lastError == error
           failed == [call EXCEPT !.lastError = lastError,
                                  !.lastFailure = error,
                                  !.inflight = @ \ {i},
                                  !.settled = Append(@, FALSE)]
           next == call.idx + 1
       IN /\ keys' = [j \in 1..Len(keys) |->
                        IF keys[j].id = call.availableKeys[call.idx].id
                        THEN [keys[j] EXCEPT !.isEnabled = FALSE] ELSE keys[j]]
          /\ persisted' = SaveKeys(keys')
          /\ IF next <= Len(call.availableKeys)
             THEN /\ calls' = [calls EXCEPT ![s] =
                    [failed EXCEPT !.idx = next,
                                            !.inflight = @ \cup {next},
                                            !.attempts = Append(@, call.availableKeys[next].key)]]
                  /\ UNCHANGED isApiModalOpen
             ELSE /\ calls' = [calls EXCEPT ![s] =
                    [failed EXCEPT !.pc = "thrown",
                                            !.thrown = FinalError(lastError, call.provider),
                                            !.failure = "AllAttemptsFailed"]]
                  /\ isApiModalOpen' = Catch(calls'[s].thrown)
    /\ UseEffect
    /\ AfterAwait(s)
    /\ UNCHANGED <<audio, initRecord, genCount, thrown, midCallOps>>

\* mutant: after the last failure the call completes without throwing
AttemptRejectsSilently(s, i, error) ==
    LET call == calls[s] IN
    /\ call.pc = "await"
    /\ i \in call.inflight
    /\ LET failed == [call EXCEPT !.lastError = error, !.lastFailure = error,
                                  !.inflight = @ \ {i},
                                  !.settled = Append(@, FALSE)]
           next == NextIndex(call.idx)
       IN calls' = [calls EXCEPT ![s] =
                    IF next <= Len(call.availableKeys)
                  THEN [failed EXCEPT !.idx = next, !.inflight = @ \cup {next},
                                      !.attempts = Append(@, call.availableKeys[next].key)]
                  ELSE [failed EXCEPT !.pc = "returned"]]
    /\ AfterAwait(s)
    /\ UNCHANGED <<audio, modal, initRecord, persisted, keys, genCount, thrown, midCallOps,
                   isApiModalOpen>>

\* keyManager.ts:131-138 the awaited attempt rejects: record the error and
\* invoke the operation with the next credential, or throw after the last
AttemptRejects(s, i, error) ==
    LET call == calls[s] IN
    /\ call.pc = "await"
    /\ i \in call.inflight
    /\ LET lastError == RecordError(call.lastError, error)
           failed == [call EXCEPT !.lastError = lastError,
                                  !.lastFailure = error,
                                  !.inflight = @ \ {i},
                                  !.settled = Append(@, FALSE)]
           next == NextIndex(call.idx)
       IN IF next <= Len(call.availableKeys)
          THEN /\ calls' = [calls EXCEPT ![s] =
                    [failed EXCEPT !.idx = next,
                                         !.inflight = @ \cup {next},
                                         !.attempts = Append(@, call.availableKeys[next].key)]]
               /\ UNCHANGED isApiModalOpen
          ELSE /\ calls' = [calls EXCEPT ![s] =
                    [failed EXCEPT !.pc = "thrown",
                                         !.thrown = FinalError(lastError, call.provider),
                                         !.failure = "AllAttemptsFailed"]]
               /\ isApiModalOpen' = Catch(calls'[s].thrown)
    /\ UseEffect
    /\ AfterAwait(s)
    /\ UNCHANGED <<audio, initRecord, persisted, keys, genCount, thrown, midCallOps>>

\* App.tsx:238 the API Keys button
OpenApiModal ==
    /\ ~isApiModalOpen
    /\ isApiModalOpen' = TRUE
    /\ UseEffect
    /\ UNCHANGED <<audio, ui, initRecord, persisted, keys, genCount, thrown, calls, midCallOps>>

\* App.tsx:222 onClose
CloseApiModal ==
    /\ isApiModalOpen
    /\ isApiModalOpen' = FALSE
    /\ UseEffect
    /\ UNCHANGED <<audio, ui, initRecord, persisted, keys, genCount, thrown, calls, midCallOps>>

(* ------------------------------- audio -------------------------------- *)

\* audio.ts:70: the decoder divides by 32768; a sample of the model is a
\* number of units 1 / Den, which a Float32Array holds exactly
Den == 32768

\* audio.ts:36 0x8000 and 0x7FFF
NegativeScale == 32768
PositiveScale == 32767

\* audio.ts:10, 33: the bytes before the first sample
HeaderSize == 44

\* audio.ts:7, 8: the default parameters
DefaultSampleRate == 24000
DefaultChannels == 1

\* a JavaScript number: q units of 1 / Den, or NaN
Sample(q) == [nan |-> FALSE, q |-> q]
NaN == [nan |-> TRUE, q |-> 0]

\* Math.min and Math.max: NaN when an argument is NaN
MathMin(a, b) == IF a.nan \/ b.nan THEN NaN ELSE IF a.q <= b.q THEN a ELSE b
MathMax(a, b) == IF a.nan \/ b.nan THEN NaN ELSE IF a.q >= b.q THEN a ELSE b

\* mutant: the sample is not clamped
ClampNothing(s) == s

\* audio.ts:35 Math.max(-1, Math.min(1, pcmData[i]))
Clamp(s) == MathMax(Sample(-Den), MathMin(Sample(Den), s))

\* mutant: every sample is multiplied by 0x8000
ScaleSymmetric(s) == IF s.nan THEN NaN ELSE Sample(s.q * NegativeScale)

\* audio.ts:36 s < 0 ? s * 0x8000 : s * 0x7FFF (NaN < 0 is false)
Scale(s) ==
    IF s.nan THEN NaN
    ELSE IF s.q < 0 THEN Sample(s.q * NegativeScale)
    ELSE Sample(s.q * PositiveScale)

\* mutant: the number is rounded to the nearest integer
ToInt16Nearest(x) ==
    IF x.nan THEN 0
    ELSE LET t == IF x.q >= 0 THEN (x.q + Den \div 2) \div Den
                  ELSE -(((-x.q) + Den \div 2) \div Den)
             m == t % (2^16)
         IN IF m >= 2^15 THEN m - 2^16 ELSE m

\* ToInt16 of DataView.prototype.setInt16: NaN is 0; the number is
\* truncated toward zero, taken modulo 2^16 and read as signed
ToInt16(x) ==
    IF x.nan THEN 0
    ELSE LET t == IF x.q >= 0 THEN x.q \div Den ELSE -((-x.q) \div Den)
             m == t % (2^16)
         IN IF m >= 2^15 THEN m - 2^16 ELSE m

\* the bytes setUint16, setUint32 and setInt16 write, littleEndian = true
\* (ToUint16, ToUint32: the number modulo 2^16, 2^32)
Uint16LE(v) == LET u == v % (2^16) IN <<u % 256, u \div 256>>

\* mutant: the four bytes most significant first
Uint32BE(v) ==
    <<(v \div 16777216) % 256, (v \div 65536) % 256, (v \div 256) % 256, v % 256>>

\* (the numbers of the model are below 2^31, so that modulo 2^32 they are
\* themselves)
Uint32LE(v) ==
    <<v % 256, (v \div 256) % 256, (v \div 65536) % 256, (v \div 16777216) % 256>>

Int16LE(x) == Uint16LE(ToInt16(x))

\* String.prototype.charCodeAt on the characters of the chunk names
CharCode(c) ==
    CASE c = "R" -> 82 [] c = "I" -> 73 [] c = "F" -> 70 [] c = "W" -> 87
      [] c = "A" -> 65 [] c = "V" -> 86 [] c = "E" -> 69 [] c = "f" -> 102
      [] c = "m" -> 109 [] c = "t" -> 116 [] c = " " -> 32 [] c = "d" -> 100
      [] c = "a" -> 97

\* new ArrayBuffer(n): n bytes, all zero; byte offset o is element o + 1
ArrayBuffer(n) == [i \in 1..n |-> 0]

\* the buffer after a DataView write of bytes at offset
SetBytes(buf, offset, bytes) ==
    [i \in 1..Len(buf) |->
        IF i > offset /\ i <= offset + Len(bytes) THEN bytes[i - offset] ELSE buf[i]]

\* audio.ts:42-46; the string is the sequence of its characters
WriteString(buf, offset, string) ==
    SetBytes(buf, offset, [i \in 1..Len(string) |-> CharCode(string[i]) % 256])

\* audio.ts:33-37 the loop, from the i-th sample on
RECURSIVE WriteSamples(_, _, _)
WriteSamples(buf, pcm, i) ==
    IF i > Len(pcm) THEN buf
    ELSE WriteSamples(SetBytes(buf, HeaderSize + 2 * (i - 1),
                               Int16LE(Scale(Clamp(pcm[i])))),
                      pcm, i + 1)

\* audio.ts:5-40 the bytes of the Blob
PcmToWav(pcm, rate, channels) ==
    LET b0  == ArrayBuffer(HeaderSize + Len(pcm) * 2)
        b1  == WriteString(b0, 0, <<"R", "I", "F", "F">>)
        b2  == SetBytes(b1, 4, Uint32LE(36 + Len(pcm) * 2))
        b3  == WriteString(b2, 8, <<"W", "A", "V", "E">>)
        b4  == WriteString(b3, 12, <<"f", "m", "t", " ">>)
        b5  == SetBytes(b4, 16, Uint32LE(16))
        b6  == SetBytes(b5, 20, Uint16LE(1))
        b7  == SetBytes(b6, 22, Uint16LE(channels))
        b8  == SetBytes(b7, 24, Uint32LE(rate))
        b9  == SetBytes(b8, 28, Uint32LE(rate * channels * 2))
        b10 == SetBytes(b9, 32, Uint16LE(channels * 2))
        b11 == SetBytes(b10, 34, Uint16LE(16))
        b12 == WriteString(b11, 36, <<"d", "a", "t", "a">>)
        b13 == SetBytes(b12, 40, Uint32LE(Len(pcm) * 2))
    IN WriteSamples(b13, pcm, 1)

\* a call of pcmToWav on the buffer and the parameters (gemini.ts:105 in
\* the speech operation, once decodeAudioData has resolved)
CallPcmToWav ==
    /\ speech.pc = "ready"
    /\ wav = <<>>
    /\ wav' = PcmToWav(pcmData, sampleRate, numChannels)
    /\ speech' = [speech EXCEPT !.pc = "returned"]
    /\ UNCHANGED <<pcmData, sampleRate, numChannels, payload, base64Audio>>
    /\ UNCHANGED <<modal, ui>>
    /\ UNCHANGED <<initRecord, persisted, keys, genCount, thrown, calls,
                   midCallOps, isApiModalOpen>>

\* base64 text is the sequence of the alphabet indices 0..63 of its
\* characters; Pad is '=', NoBase64 a character outside the alphabet
Pad == 64
NoBase64 == 65

\* an ASCII whitespace character (space, tab, LF, FF, CR) of a text
Whitespace == 66

\* the base64 text of a byte sequence, as the provider sends it
RECURSIVE Btoa(_)
Btoa(b) ==
    IF Len(b) = 0 THEN <<>>
    ELSE IF Len(b) = 1
    THEN <<b[1] \div 4, (b[1] % 4) * 16, Pad, Pad>>
    ELSE IF Len(b) = 2
    THEN <<b[1] \div 4, (b[1] % 4) * 16 + b[2] \div 16, (b[2] % 16) * 4, Pad>>
    ELSE <<b[1] \div 4, (b[1] % 4) * 16 + b[2] \div 16,
           (b[2] % 16) * 4 + b[3] \div 64, b[3] % 64>> \o Btoa(SubSeq(b, 4, Len(b)))

\* the bytes of a sequence of alphabet indices: three of every four, one of
\* a rest of two and two of a rest of three, the bits left over dropped
RECURSIVE SextetsToBytes(_)
SextetsToBytes(t) ==
    IF Len(t) < 2 THEN <<>>
    ELSE IF Len(t) = 2 THEN <<t[1] * 4 + t[2] \div 16>>
    ELSE IF Len(t) = 3
    THEN <<t[1] * 4 + t[2] \div 16, (t[2] % 16) * 16 + t[3] \div 4>>
    ELSE <<t[1] * 4 + t[2] \div 16, (t[2] % 16) * 16 + t[3] \div 4,
           (t[3] % 4) * 64 + t[4]>> \o SextetsToBytes(SubSeq(t, 5, Len(t)))

\* audio.ts:55-60 atob and the copy of the char codes: ASCII whitespace is
\* removed from the text; a text whose length then is a multiple of 4 loses
\* one or two '=' at its end; a text that then has length 1 modulo 4 or a
\* character outside the alphabet makes atob throw
Atob(text) ==
    LET stripped == SelectSeq(text, LAMBDA c : c # Whitespace)
        n == Len(stripped)
        pads == IF n % 4 = 0 /\ n > 0 /\ stripped[n] = Pad
                THEN IF stripped[n - 1] = Pad THEN 2 ELSE 1
                ELSE 0
        t == SubSeq(stripped, 1, n - pads)
    IN IF Len(t) % 4 = 1 \/ \E i \in 1..Len(t) : t[i] \notin 0..63
       THEN [ok |-> FALSE, bytes |-> <<>>]
       ELSE [ok |-> TRUE, bytes |-> SextetsToBytes(t)]

\* mutant: the elements are read as unsigned 16-bit integers
Uint16Element(bytes, i) == bytes[2 * i - 1] + 256 * bytes[2 * i]

\* audio.ts:66 the i-th element of new Int16Array(bytes.buffer), i from 1:
\* two bytes in the byte order of the host, which is little-endian on the
\* platforms browsers run on, read as a signed integer
Int16Element(bytes, i) ==
    LET u == bytes[2 * i - 1] + 256 * bytes[2 * i]
    IN IF u >= 2^15 THEN u - 2^16 ELSE u

\* audio.ts:51-74 decodeAudioData: atob throws on text that is no base64,
\* new Int16Array throws a RangeError on an odd number of bytes; the sample
\* dataInt16[i] / 32768.0 is dataInt16[i] units of 1 / Den
DecodeAudioData(text) ==
    IF ~Atob(text).ok
    THEN [ok |-> FALSE, error |-> Err(<<"InvalidCharacterError">>), samples |-> <<>>]
    ELSE IF Len(Atob(text).bytes) % 2 # 0
    THEN [ok |-> FALSE, error |-> Err(<<"RangeError">>), samples |-> <<>>]
    ELSE [ok |-> TRUE, error |-> NullErr,
          samples |-> [i \in 1..(Len(Atob(text).bytes) \div 2) |->
                          Sample(Int16Element(Atob(text).bytes, i))]]

\* gemini.ts:98-104 the operation of generateGeminiSpeech from the response
\* to the resolution of decodeAudioData(base64Audio, 24000)
SpeechDecode ==
    /\ speech.pc = "response"
    /\ IF base64Audio = <<>>
       THEN /\ speech' = [pc |-> "thrown",
                          error |-> Err(<<"No", "audio", "data", "returned",
                                          "from", "Gemini.">>)]
            /\ UNCHANGED pcmData
       ELSE IF ~DecodeAudioData(base64Audio).ok
       THEN /\ speech' = [pc |-> "thrown", error |-> DecodeAudioData(base64Audio).error]
            /\ UNCHANGED pcmData
       ELSE /\ speech' = [pc |-> "ready", error |-> NullErr]
            /\ pcmData' = DecodeAudioData(base64Audio).samples
    /\ UNCHANGED <<sampleRate, numChannels, wav, payload, base64Audio>>
    /\ UNCHANGED <<modal, ui>>
    /\ UNCHANGED <<initRecord, persisted, keys, genCount, thrown, calls,
                   midCallOps, isApiModalOpen>>

\* no speech operation and no call of pcmToWav is under way
AudioIdle ==
    /\ pcmData = <<>>
    /\ sampleRate = DefaultSampleRate
    /\ numChannels = DefaultChannels
    /\ wav = <<>>
    /\ payload = <<>>
    /\ base64Audio = <<>>
    /\ speech = [pc |-> "idle", error |-> NullErr]

(* ------------- App.tsx: generate all audio, all images ---------------- *)

\* App.tsx:110 handleGenerateAllAudio calls handleGenerateAudio(id, 'gemini')
\* (121 handleGenerateAllImages calls handleGenerateImage(id)) and awaits
\* it: the batch record b when the rotation, the call c of slot s, is under
\* way, or after the failure was caught when the rotation threw at once
Awaiting(b, s, id, c) ==
    LET waiting == [b EXCEPT !.pc = "generating", !.started = Append(@, id),
                             !.slot = s]
    IN IF c.pc = "thrown" THEN SettledBatch(waiting, s, c) ELSE waiting

\* App.tsx:105-114 handleGenerateAllAudio up to its first await; the button
\* is rendered only with segments (part_000:31) and is disabled while either
\* generate-all flag is set (part_000:55)
HandleGenerateAllAudio ==
    /\ segments # <<>>
    /\ ~generatingAllAudio
    /\ ~generatingAllImages
    /\ LET pendingSegments == PendingSegments(segments)
       IN IF pendingSegments = <<>>
          THEN /\ generatingAllAudio' = FALSE
               /\ batch' = IdleBatch
               /\ UNCHANGED <<segments, analysisCount, audio, modal, initRecord,
                              persisted, keys, genCount, thrown, calls, midCallOps,
                              isApiModalOpen>>
          ELSE /\ generatingAllAudio' = TRUE
               /\ \E s \in Slots :
                     /\ GenerateAudio(s, pendingSegments[1].id, "gemini")
                     /\ batch' = Awaiting(
                            [IdleBatch EXCEPT !.pendingSegments =
                                                 MapSeq(pendingSegments, LAMBDA p : p.id)],
                            s, pendingSegments[1].id, calls'[s])
    /\ UNCHANGED <<generatingAllImages, imageBatch>>

\* App.tsx:109-113 the delay of line 111 is over, whatever else is under
\* way: the loop takes the next pending segment of its closure, or ends and
\* the flag is cleared
DelayElapsed ==
    /\ batch.pc = "delay"
    /\ IF Len(batch.started) < Len(batch.pendingSegments)
       THEN LET id == batch.pendingSegments[Len(batch.started) + 1]
            IN /\ \E s \in Slots :
                     /\ GenerateAudio(s, id, "gemini")
                     /\ batch' = Awaiting(batch, s, id, calls'[s])
               /\ UNCHANGED generatingAllAudio
       ELSE /\ batch' = [batch EXCEPT !.pc = "idle"]
            /\ generatingAllAudio' = FALSE
            /\ UNCHANGED <<segments, analysisCount, audio, modal, initRecord,
                           persisted, keys, genCount, thrown, calls, midCallOps,
                           isApiModalOpen>>
    /\ UNCHANGED <<generatingAllImages, imageBatch>>

\* App.tsx:116-125 handleGenerateAllImages up to its first await; the button
\* is rendered only with segments (part_000:31) and is disabled while either
\* generate-all flag is set (part_000:64)
HandleGenerateAllImages ==
    /\ segments # <<>>
    /\ ~generatingAllAudio
    /\ ~generatingAllImages
    /\ LET pendingSegments == PendingImages(segments)
       IN IF pendingSegments = <<>>
          THEN /\ generatingAllImages' = FALSE
               /\ imageBatch' = IdleBatch
               /\ UNCHANGED <<segments, analysisCount, audio, modal, initRecord,
                              persisted, keys, genCount, thrown, calls, midCallOps,
                              isApiModalOpen>>
          ELSE /\ generatingAllImages' = TRUE
               /\ \E s \in Slots :
                     /\ GenerateImage(s, pendingSegments[1].id)
                     /\ imageBatch' = Awaiting(
                            [IdleBatch EXCEPT !.pendingSegments =
                                                 MapSeq(pendingSegments, LAMBDA p : p.id)],
                            s, pendingSegments[1].id, calls'[s])
    /\ UNCHANGED <<generatingAllAudio, batch>>

\* App.tsx:120-124 the delay of line 122 is over, whatever else is under
\* way: the loop takes the next pending segment of its closure, or ends and
\* the flag is cleared
ImageDelayElapsed ==
    /\ imageBatch.pc = "delay"
    /\ IF Len(imageBatch.started) < Len(imageBatch.pendingSegments)
       THEN LET id == imageBatch.pendingSegments[Len(imageBatch.started) + 1]
            IN /\ \E s \in Slots :
                     /\ GenerateImage(s, id)
                     /\ imageBatch' = Awaiting(imageBatch, s, id, calls'[s])
               /\ UNCHANGED generatingAllImages
       ELSE /\ imageBatch' = [imageBatch EXCEPT !.pc = "idle"]
            /\ generatingAllImages' = FALSE
            /\ UNCHANGED <<segments, analysisCount, audio, modal, initRecord,
                           persisted, keys, genCount, thrown, calls, midCallOps,
                           isApiModalOpen>>
    /\ UNCHANGED <<generatingAllAudio, batch>>

(* ---------------- ApiManagerModal.tsx: two-click delete ---------------- *)

\* setTimeout callbacks of handleDeleteClick pending at most
MaxTimers == 2

\* steps of the clock in one confirmation timeout
TimeResolution == 3

\* ApiManagerModal.tsx:55 the delay of the setTimeout, in milliseconds
ConfirmTimeout == 3000

\* the time one step of the clock takes
ClockStep == ConfirmTimeout \div TimeResolution

\* ApiManagerModal.tsx:25-27 refreshKeys on the store ks: keyManager.getKeys(tab)
RefreshKeys(ks, tab) == SelectSeq(ks, LAMBDA k : k.provider = tab)

\* the credentials listed, each with a delete control (lines 196-197)
IdsListed == {modalKeys[i].id : i \in 1..Len(modalKeys)}

\* ApiManagerModal.tsx:93, 105 a click on a provider tab, with the effect of
\* lines 18-23 when the tab changes
SetActiveTab(tab) ==
    /\ isApiModalOpen
    /\ activeTab' = tab
    /\ IF tab # activeTab
       THEN /\ modalKeys' = RefreshKeys(keys, tab)
            /\ deleteConfirmId' = NoConfirm
            /\ confirmAge' = 0
       ELSE UNCHANGED <<modalKeys, deleteConfirmId, confirmAge>>
    /\ UNCHANGED <<timers, audio, ui, initRecord, persisted, keys, genCount,
                   thrown, calls, midCallOps, isApiModalOpen>>

\* number of credentials added through the manager that is explored
MaxAdds == 1

\* texts typed in the key field of the manager
NewKeyInputs == {"D", " A ", " "}

\* ApiManagerModal.tsx:29-41 handleAddKey: the form is submitted with the
\* text newKey; a blank text returns at line 31, keyManager.addKey
\* (keyManager.ts:63-85) is called with the trimmed text and no label, and
\* the list is refreshed unless addKey threw; thrown is what addKey threw,
\* which the handler catches (line 38) and shows as its error text
HandleAddKey(newKey) ==
    /\ isApiModalOpen
    /\ IF Trim(newKey) = ""
       THEN UNCHANGED <<keys, persisted, genCount, thrown, modalKeys>>
       ELSE IF IsDuplicate(Trim(newKey), activeTab)
       THEN /\ thrown' = Err(DuplicateMessage)
            /\ UNCHANGED <<keys, persisted, genCount, modalKeys>>
       ELSE /\ genCount < MaxAdds
            /\ keys' = keys \o <<NewKey(GenId(genCount + 1), Trim(newKey), activeTab, "")>>
            /\ genCount' = genCount + 1
            /\ persisted' = SaveKeys(keys')
            /\ thrown' = NullErr
            /\ modalKeys' = RefreshKeys(keys', activeTab)
    /\ UNCHANGED <<activeTab, deleteConfirmId, timers, confirmAge, audio, ui,
                   initRecord, calls, midCallOps, isApiModalOpen>>

\* ApiManagerModal.tsx:43-57 handleDeleteClick on the delete control of a
\* listed credential, with keyManager.removeKey (keyManager.ts:87-98)
HandleDeleteClick(id) ==
    /\ isApiModalOpen
    /\ id \in IdsListed
    /\ IF deleteConfirmId = id
       THEN /\ keys' = Removed(keys, id)
            /\ persisted' = SaveKeys(keys')
            /\ thrown' = NullErr
            /\ deleteConfirmId' = NoConfirm
            /\ confirmAge' = 0
            /\ modalKeys' = RefreshKeys(keys', activeTab)
            /\ UNCHANGED timers
       ELSE /\ Len(timers) < MaxTimers
            /\ deleteConfirmId' = id
            /\ confirmAge' = 0
            /\ timers' = Append(timers, [id |-> id, left |-> ConfirmTimeout])
            /\ UNCHANGED <<keys, persisted, thrown, modalKeys>>
    /\ UNCHANGED <<genCount, activeTab, audio, ui, initRecord, calls, midCallOps,
                   isApiModalOpen>>

\* ApiManagerModal.tsx:59-64 handleToggleKey, with keyManager.toggleKeyStatus
\* (keyManager.ts:100-105)
HandleToggleKey(id) ==
    /\ isApiModalOpen
    /\ id \in IdsListed
    /\ keys' = Toggled(keys, id)
    /\ persisted' = SaveKeys(keys')
    /\ thrown' = NullErr
    /\ modalKeys' = RefreshKeys(keys', activeTab)
    /\ UNCHANGED <<activeTab, deleteConfirmId, timers, confirmAge, genCount, audio,
                   ui, initRecord, calls, midCallOps, isApiModalOpen>>

\* ApiManagerModal.tsx:53-55 the callback of the oldest setTimeout runs when
\* its delay is over: setDeleteConfirmId(prev => prev === id ? null : prev)
TimerFires ==
    /\ timers # <<>>
    /\ Head(timers).left = 0
    /\ timers' = Tail(timers)
    /\ IF deleteConfirmId = Head(timers).id
       THEN deleteConfirmId' = NoConfirm /\ confirmAge' = 0
       ELSE UNCHANGED <<deleteConfirmId, confirmAge>>
    /\ UNCHANGED <<activeTab, modalKeys, audio, ui, initRecord, persisted, keys,
                   genCount, thrown, calls, midCallOps, isApiModalOpen>>

\* time passes by one step of the clock; a callback that is due runs first
Tick ==
    /\ timers # <<>>
    /\ \A i \in 1..Len(timers) : timers[i].left > 0
    /\ timers' = [i \in 1..Len(timers) |->
                     [timers[i] EXCEPT !.left = @ - ClockStep]]
    /\ confirmAge' = IF deleteConfirmId # NoConfirm THEN confirmAge + ClockStep ELSE 0
    /\ UNCHANGED <<activeTab, modalKeys, deleteConfirmId, audio, ui, initRecord,
                   persisted, keys, genCount, thrown, calls, midCallOps,
                   isApiModalOpen>>

\* ApiManagerModal.tsx:12-16 the initial state of the component
ModalIdle ==
    /\ activeTab = "gemini"
    /\ modalKeys = <<>>
    /\ deleteConfirmId = NoConfirm
    /\ timers = <<>>
    /\ confirmAge = 0

\* App.tsx:13-15 the initial state of the component
UiIdle ==
    /\ segments = <<>>
    /\ generatingAllAudio = FALSE
    /\ batch = IdleBatch
    /\ generatingAllImages = FALSE
    /\ imageBatch = IdleBatch
    /\ analysisCount = 0

(* --------------------------- specifications --------------------------- *)

\* the store and the application after construction on the record rec
ConstructedOn(rec) ==
    /\ initRecord = rec
    /\ keys = LoadKeys(rec).keys
    /\ persisted = LoadKeys(rec).persisted
    /\ genCount = LoadKeys(rec).genCount
    /\ thrown = LoadKeys(rec).thrown
    /\ calls = [s \in Slots |-> IdleCall]
    /\ midCallOps = 0
    /\ isApiModalOpen = FALSE
    /\ ModalIdle

\* the state after construction on the record rec
InitOn(rec) == ConstructedOn(rec) /\ AudioIdle /\ UiIdle

\* Spec: the rotation executor under handleAnalyze and handleGenerateAudio,
\* with the store operations running between its steps: a script is analysed
\* whenever the analyse button is enabled, audio is generated from the audio
\* buttons of the segments shown, and the calls of the handlers overlap
SpecRecords ==
    { Absent,
      Stored(<<Saved("p1", "A", "gemini", TRUE), Saved("p2", "B", "gemini", TRUE),
               Saved("p3", "C", "gemini", TRUE)>>),
      Stored(<<Saved("p1", "A", "gemini", FALSE), Saved("p2", "B", "elevenlabs", TRUE)>>) }

\* key material and provider of the credentials added under Spec
SpecAdds == {<<"B", "gemini">>, <<"A", "elevenlabs">>}

\* the credential removeKey and toggleKeyStatus are called for under Spec:
\* the second one of the stored records
SpecIds == {"p2"}

\* what the attempts resolve with under Spec: an analysis resolves with a
\* script of one segment, a generation with either audio
SpecValues(caller) == IF caller.handler = "analyze" THEN {"r1"} ELSE Values

Init == \E rec \in SpecRecords : InitOn(rec)

Next ==
    \/ \E kp \in SpecAdds : AddKey(kp[1], kp[2], "")
    \/ \E id \in SpecIds : RemoveKey(id)
    \/ \E id \in SpecIds : ToggleKeyStatus(id)
    \/ ~IsLoading /\ HandleAnalyze
    \/ \E b \in AudioButtons : HandleGenerateAudio(b[1], b[2])
    \/ \E s \in Slots : \E i \in calls[s].inflight, v \in SpecValues(calls[s].caller) :
          AttemptResolves(s, i, v)
    \/ \E s \in Slots :
          \E i \in calls[s].inflight, error \in Rejections(calls[s].provider) :
             AttemptRejects(s, i, error)

Spec == Init /\ [][Next]_vars

\* StoreSpec: the store alone, constructed on any of the records
PersistedRecords ==
    { Absent, Unparsable, NotArray, Stored(<<>>),
      Stored(<<Saved("p1", "A", "gemini", FALSE), Saved("p2", "B", "gemini", TRUE)>>),
      Stored(<<RawEntry("sys-env-key", "E", "gemini", "System Default", TRUE, TRUE, TRUE),
               Saved("p1", "A", "elevenlabs", TRUE)>>),
      Stored(<<RawEntry("", "A", "gemini", "old", FALSE, FALSE, FALSE)>>),
      Stored(<<Saved("p1", "A", "gemini", TRUE), Saved("p2", "A", "gemini", TRUE)>>),
      Stored(<<Saved("p1", " ", "gemini", TRUE), Saved("p2", "", "elevenlabs", TRUE)>>),
      Stored(<<RawEntry("p1", "A", "gemini", "old", FALSE, FALSE, FALSE),
               Saved("p2", "B", "elevenlabs", FALSE)>>),
      Stored(<<RawEntry("p1", "A", "gemini", "Key A...", TRUE, TRUE, TRUE),
               Saved("p2", "B", "gemini", TRUE),
               RawEntry("p3", "C", "gemini", "System Default", TRUE, TRUE, FALSE),
               NullEntry,
               RawEntry("sys-env-key", "E", "elevenlabs", "Key E...", TRUE, TRUE, FALSE),
               Saved("p4", "A", "elevenlabs", FALSE)>>),
      Stored(<<RawEntry("", "A", "gemini", "old", TRUE, FALSE, FALSE),
               Saved("p1", "B", "gemini", TRUE),
               RawEntry("", "A", "elevenlabs", "old", TRUE, TRUE, FALSE)>>),
      Stored(<<Saved("p1", "A", "gemini", TRUE), Saved("p1", "B", "gemini", FALSE)>>),
      Stored(<<Saved("p1", "A", "openai", TRUE), Saved("p2", "B", "gemini", TRUE)>>) }

StoreInit == \E rec \in PersistedRecords : InitOn(rec)

\* the calls of addKey under StoreSpec: key material, provider, label
StoreAdds ==
    { <<"A", "gemini", "">>, <<"A", "elevenlabs", "Work">>,
      <<"B", "gemini", "System Default">>, <<"sk-long-key", "elevenlabs", "">>,
      <<"", "gemini", "">>, <<" ", "gemini", "">>, <<"", "elevenlabs", "Work">> }

StoreNext ==
    \/ \E a \in StoreAdds : AddKey(a[1], a[2], a[3])
    \/ \E id \in IdInputs : RemoveKey(id)
    \/ \E id \in IdInputs : ToggleKeyStatus(id)

StoreSpec == StoreInit /\ [][StoreNext]_vars

\* AppSpec: the handlers of App.tsx after construction on an empty store or
\* on one enabled and one disabled gemini credential: scripts are analysed,
\* audio and images are generated from the buttons of the segments shown,
\* with either provider where the provider is selected, and for all
\* segments, the calls of the handlers overlapping
AppRecords ==
    { Absent, Stored(<<Saved("p1", "A", "gemini", TRUE), Saved("p2", "B", "gemini", FALSE)>>) }

AppInit == \E rec \in AppRecords : InitOn(rec)

\* what the attempts settle with under BatchSpec, and reject with under
\* AppSpec too: an analysis resolves with a script of one segment or of two,
\* a generation resolves with one audio, and an attempt rejects with an
\* ordinary Error
SettleValues(caller) == IF caller.handler = "analyze" THEN Values ELSE {"r1"}
SettleRejections == {Err(<<"Quota", "exceeded">>)}

\* what the attempts resolve with under AppSpec: an analysis resolves with a
\* script of one segment, a generation with one audio or image
AppValues(caller) == {"r1"}

AppNext ==
    \/ ~IsLoading /\ HandleAnalyze
    \/ \E b \in AudioButtons : HandleGenerateAudio(b[1], b[2])
    \/ \E id \in ImageButtons : HandleGenerateImage(id)
    \/ HandleGenerateAllAudio
    \/ DelayElapsed
    \/ HandleGenerateAllImages
    \/ ImageDelayElapsed
    \/ \E s \in Slots : \E i \in calls[s].inflight, v \in AppValues(calls[s].caller) :
          AttemptResolves(s, i, v)
    \/ \E s \in Slots : \E i \in calls[s].inflight, error \in SettleRejections :
          AttemptRejects(s, i, error)

AppSpec == AppInit /\ [][AppNext]_vars

\* LiveSpec: the executor on the stores of SpecRecords, a credential being
\* toggled and removed between its steps and the calls of the handlers
\* overlapping, where every attempt of the operation settles: Settle(s) is
\* the settling of the attempt the call of slot s awaits
Settle(s) ==
    \/ \E i \in calls[s].inflight, v \in SpecValues(calls[s].caller) :
          AttemptResolves(s, i, v)
    \/ \E i \in calls[s].inflight, error \in Rejections(calls[s].provider) :
          AttemptRejects(s, i, error)

LiveNext ==
    \/ \E id \in SpecIds : RemoveKey(id)
    \/ \E id \in SpecIds : ToggleKeyStatus(id)
    \/ ~IsLoading /\ HandleAnalyze
    \/ \E b \in AudioButtons : HandleGenerateAudio(b[1], b[2])
    \/ \E s \in Slots : Settle(s)

LiveSpec == Init /\ [][LiveNext]_vars /\ \A s \in Slots : WF_vars(Settle(s))

\* AudioSpec: pcmToWav on sample buffers: the buffer of the worked example
\* and every buffer of at most MaxSamples samples over SampleInputs
ExampleBuffer ==
    <<Sample(0), Sample(16384), Sample(-16384), Sample(32768), Sample(-32768)>>

\* 0, 0.5, -0.5, 1, -1, 1.5, -1.5, the neighbours of 0 and of 1 on the grid
\* of the decoder, and NaN
SampleInputs ==
    { Sample(0), Sample(16384), Sample(-16384), Sample(32768), Sample(-32768),
      Sample(49152), Sample(-49152), Sample(1), Sample(-1), Sample(32767), NaN }

PcmInputs ==
    {ExampleBuffer} \cup UNION {[1..n -> SampleInputs] : n \in 0..MaxSamples}

SampleRates == {24000, 44100}

ChannelCounts == {1, 2}

AudioInit ==
    /\ ConstructedOn(Absent)
    /\ UiIdle
    /\ pcmData \in PcmInputs
    /\ sampleRate \in SampleRates
    /\ numChannels \in ChannelCounts
    /\ wav = <<>>
    /\ payload = <<>>
    /\ base64Audio = <<>>
    /\ speech = [pc |-> "ready", error |-> NullErr]

AudioNext == CallPcmToWav

AudioSpec == AudioInit /\ [][AudioNext]_vars

\* SpeechSpec: the speech operation of gemini.ts on the response of the
\* provider: decodeAudioData, then pcmToWav at 24000 Hz mono
\* the bytes of the 16-bit samples 0, 1, -1, 16384, -16384, 32767, -32768
SampleBytes ==
    { <<0, 0>>, <<1, 0>>, <<255, 255>>, <<0, 64>>, <<0, 192>>, <<255, 127>>,
      <<0, 128>> }

RECURSIVE Flatten(_)
Flatten(ss) == IF ss = <<>> THEN <<>> ELSE Head(ss) \o Flatten(Tail(ss))

\* payloads of at most MaxSamples samples, and two with a byte too many
PayloadInputs ==
    {Flatten(ss) : ss \in UNION {[1..n -> SampleBytes] : n \in 0..MaxSamples}}
        \cup {<<0>>, <<0, 64, 1>>}

\* texts that are not the padded base64 of a payload: 'AEA' without its
\* padding, texts atob rejects, and texts with whitespace
OtherTexts ==
    { [payload |-> <<0, 64>>, text |-> <<0, 4, 0>>],
      [payload |-> <<>>, text |-> <<0, Pad, 0, 0>>],
      [payload |-> <<>>, text |-> <<0, 4, 0, 0, 0>>],
      [payload |-> <<>>, text |-> <<0, 4, NoBase64, 0>>],
      [payload |-> <<0, 64>>, text |-> <<0, 4, Whitespace, 0>>],
      [payload |-> <<0, 64>>, text |-> <<0, Whitespace, 4, 0, Pad, Whitespace>>],
      [payload |-> <<>>, text |-> <<Whitespace>>] }

SpeechInit ==
    /\ ConstructedOn(Absent)
    /\ UiIdle
    /\ pcmData = <<>>
    /\ sampleRate = DefaultSampleRate
    /\ numChannels = DefaultChannels
    /\ wav = <<>>
    /\ \/ payload \in PayloadInputs /\ base64Audio = Btoa(payload)
       \/ \E o \in OtherTexts : payload = o.payload /\ base64Audio = o.text
    /\ speech = [pc |-> "response", error |-> NullErr]

SpeechNext ==
    \/ SpeechDecode
    \/ CallPcmToWav

SpeechSpec == SpeechInit /\ [][SpeechNext]_vars


\* BatchSpec: generate-all-audio in the application after construction,
\* with no key in the store or one: scripts are analysed, also while a batch
\* runs, and audio is generated from the audio buttons of the segments shown
\* and for all segments, several generations being under way at a time
BatchRecords ==
    { Absent, Stored(<<Saved("p1", "A", "gemini", TRUE)>>) }

BatchInit == \E rec \in BatchRecords : InitOn(rec)

BatchNext ==
    \/ ~IsLoading /\ HandleAnalyze
    \/ \E b \in AudioButtons : HandleGenerateAudio(b[1], b[2])
    \/ HandleGenerateAllAudio
    \/ DelayElapsed
    \/ \E s \in Slots : \E i \in calls[s].inflight, v \in SettleValues(calls[s].caller) :
          AttemptResolves(s, i, v)
    \/ \E s \in Slots : \E i \in calls[s].inflight, error \in SettleRejections :
          AttemptRejects(s, i, error)

BatchSpec == BatchInit /\ [][BatchNext]_vars

\* ModalSpec: the API key manager over a store of two gemini credentials
\* and one elevenlabs credential, to which credentials are added
ModalRecords ==
    { Stored(<<Saved("p1", "A", "gemini", TRUE), Saved("p2", "B", "gemini", TRUE),
               Saved("p3", "C", "elevenlabs", TRUE)>>) }

ModalInit == \E rec \in ModalRecords : InitOn(rec)

ModalNext ==
    \/ OpenApiModal
    \/ CloseApiModal
    \/ \E tab \in Providers : SetActiveTab(tab)
    \/ \E id \in IdsListed : HandleDeleteClick(id)
    \/ \E id \in IdsListed : HandleToggleKey(id)
    \/ \E newKey \in NewKeyInputs : HandleAddKey(newKey)
    \/ TimerFires
    \/ Tick

ModalSpec == ModalInit /\ [][ModalNext]_vars

(* ------------------------------- claims ------------------------------- *)

\* the key material of the credentials of the provider that were enabled
\* when the call started, in store order
PoolAtCall(call) ==
    LET pool == SelectSeq(call.keysAtCall,
                          LAMBDA k : k.provider = call.provider /\ k.isEnabled)
    IN [i \in 1..Len(pool) |-> pool[i].key]

Finished(call) == call.pc \in {"returned", "thrown"}

\* C1: the keys the operation is invoked with are, in order, the keys of the
\* enabled credentials of the provider in store order (the pool computed
\* when the call starts), none skipped or repeated, every attempt before
\* the last one failed, and a call that returns does so after the first
\* success with the result of that attempt.
RotationOrder ==
    \A s \in Slots : LET call == calls[s] IN
    call.pc # "idle" =>
        /\ Len(call.attempts) <= Len(PoolAtCall(call))
        /\ call.attempts = SubSeq(PoolAtCall(call), 1, Len(call.attempts))
        /\ \A i \in 1..Len(call.settled) :
              i < Len(call.attempts) => ~call.settled[i]
        /\ call.pc = "returned" =>
              /\ Len(call.settled) = Len(call.attempts)
              /\ call.settled[Len(call.attempts)]
              /\ call.result = call.resolved

RotationOrderWitness ==
    \E s \in Slots : LET call == calls[s] IN
    /\ call.pc = "returned"
    /\ call.attempts = <<"A", "B", "C">>
    /\ call.settled = <<FALSE, FALSE, TRUE>>
    /\ call.result = "r2"

\* C2: once an attempt has succeeded the call has returned the result of
\* that attempt and that attempt is the last invocation of the operation;
\* when the first attempt succeeds there is exactly one invocation.
ShortCircuit ==
    \A s \in Slots : LET call == calls[s] IN
    \A i \in 1..Len(call.settled) :
        call.settled[i] =>
            /\ call.pc = "returned"
            /\ call.result = call.resolved
            /\ i = Len(call.attempts)
            /\ call.inflight = {}

ShortCircuitWitness ==
    \E s \in Slots : LET call == calls[s] IN
    /\ call.pc = "returned"
    /\ Len(PoolAtCall(call)) = 3
    /\ call.settled = <<TRUE>>
    /\ Len(call.attempts) = 1

\* C3: a call for a provider that has no enabled credential when the call
\* starts throws the NoKeysAvailable error and invokes nothing, whatever
\* the credentials of the other provider.
EmptyPool ==
    \A s \in Slots : LET call == calls[s] IN
    (call.pc # "idle" /\ PoolAtCall(call) = <<>>) =>
        /\ call.pc = "thrown"
        /\ call.failure = "NoKeysAvailable"
        /\ call.thrown = Err(NoKeysMessage(call.provider))
        /\ call.attempts = <<>>
        /\ call.inflight = {}

EmptyPoolWitness ==
    \E s \in Slots : LET call == calls[s] IN
    /\ call.pc = "thrown"
    /\ call.provider = "gemini"
    /\ \E i \in 1..Len(call.keysAtCall) :
          call.keysAtCall[i].provider = "gemini" /\ ~call.keysAtCall[i].isEnabled
    /\ \E i \in 1..Len(call.keysAtCall) :
          call.keysAtCall[i].provider = "elevenlabs" /\ call.keysAtCall[i].isEnabled
    /\ call.attempts = <<>>

\* C4: when every attempt failed the call throws an error derived from the
\* failure of the last attempt, and that error differs from the
\* NoKeysAvailable error, whatever the operation rejected with.
AllFailDistinguishable ==
    \A s \in Slots : LET call == calls[s] IN
    (call.pc = "thrown" /\ call.attempts # <<>>) =>
        /\ \/ call.thrown = call.lastFailure
           \/ /\ ~call.lastFailure.truthy
              /\ call.thrown = Err(AllFailedMessage(call.provider))
        /\ call.thrown # Err(NoKeysMessage(call.provider))

\* C5: a handler whose call ends with NoKeysAvailable opens the API key
\* manager, and a call that ends with another failure leaves it as it was.
NoKeysOpensApiManager ==
    [][\A s \in Slots : LET call == calls[s] IN
       (call' # call /\ call'.pc = "thrown") =>
          IF call'.failure = "NoKeysAvailable"
          THEN isApiModalOpen'
          ELSE isApiModalOpen' = isApiModalOpen]_vars

\* C6: at most one attempt is in flight; the operation is invoked again
\* only in the step in which the attempt in flight fails; and while an
\* attempt is in flight the call changes only when that attempt settles.
OneAttemptAtATime ==
    [][\A s \in Slots : LET call == calls[s] IN
       /\ Cardinality(call'.inflight) <= 1
       /\ (call.pc = "await" /\ call' # call) =>
             /\ Len(call'.settled) = Len(call.settled) + 1
             /\ Len(call.settled) + 1 = Len(call.attempts)
             /\ Len(call'.attempts) > Len(call.attempts) =>
                   /\ ~call'.settled[Len(call'.settled)]
                   /\ Len(call'.attempts) = Len(call.attempts) + 1]_vars

OneAttemptAtATimeWitness ==
    \E s \in Slots : LET call == calls[s] IN
    /\ call.pc = "await"
    /\ call.inflight = {2}
    /\ call.settled = <<FALSE>>
    /\ Len(PoolAtCall(call)) = 3

\* keys of the enabled credentials of a provider in the store as it is now
LivePool(provider) ==
    LET pool == SelectSeq(keys, LAMBDA k : k.provider = provider /\ k.isEnabled)
    IN [i \in 1..Len(pool) |-> pool[i].key]

\* C7 as stated: whenever the operation is invoked, the key it is invoked
\* with is the key of a credential that the store holds at that moment with
\* the requested provider and enabled.
OnlyKeysEnabledWhenInvoked ==
    [][\A s \in Slots : LET call == calls[s] IN
       (call' # call /\ call'.inflight # {} /\ call'.inflight # call.inflight) =>
           \E j \in 1..Len(keys) :
               /\ keys[j].key = call'.attempts[Len(call'.attempts)]
               /\ keys[j].provider = call'.provider
               /\ keys[j].isEnabled]_vars

\* C7: every key the operation is invoked with is the key of a credential
\* that had the requested provider and was enabled when the call started.
OnlyEnabledKeysOfProvider ==
    \A s \in Slots : LET call == calls[s] IN
    \A i \in 1..Len(call.attempts) :
        \E j \in 1..Len(call.keysAtCall) :
            /\ call.keysAtCall[j].key = call.attempts[i]
            /\ call.keysAtCall[j].provider = call.provider
            /\ call.keysAtCall[j].isEnabled

\* every credential of the pool has been tried, and the store held a
\* disabled credential of the provider and an enabled one of the other
\* provider when the call started
OnlyEnabledKeysOfProviderWitness ==
    \E s \in Slots : LET call == calls[s] IN
    /\ call.pc = "thrown"
    /\ call.attempts # <<>>
    /\ Len(call.attempts) = Len(PoolAtCall(call))
    /\ \E j \in 1..Len(call.keysAtCall) :
          call.keysAtCall[j].provider = call.provider /\ ~call.keysAtCall[j].isEnabled
    /\ \E j \in 1..Len(call.keysAtCall) :
          call.keysAtCall[j].provider # call.provider /\ call.keysAtCall[j].isEnabled

\* what a call has done and how it ended, for C8
Outcome(call) ==
    /\ Len(call.attempts) <= Len(PoolAtCall(call))
    /\ call.pc = "returned" =>
          /\ call.settled # <<>>
          /\ call.settled[Len(call.settled)]
          /\ call.result = call.resolved
          /\ call.result \in Values
    /\ call.pc = "thrown" =>
          /\ call.thrown.truthy
          /\ \A i \in 1..Len(call.settled) : ~call.settled[i]

\* C8: a call whose attempts all settle finishes, after at most as many
\* attempts as the provider had enabled credentials, either returned with
\* the value of an attempt that succeeded or thrown with an error; it has
\* not returned when its last attempt failed.
TerminatesWithOutcome ==
    /\ [](\A s \in Slots : Outcome(calls[s]))
    /\ \A s \in Slots : (calls[s].pc = "await") ~> Finished(calls[s])

TerminatesWithOutcomeWitness ==
    \E s \in Slots : LET call == calls[s] IN
    /\ call.pc = "thrown"
    /\ Len(call.attempts) = 3
    /\ call.settled = <<FALSE, FALSE, FALSE>>
    /\ ~call.lastFailure.truthy

\* C9: addKey with key material and provider of a credential of the store
\* throws the duplicate error and leaves store and record as they were.
DuplicateRejected ==
    [][\A key \in AddInputs, provider \in Providers, label \in Labels :
         ( /\ Trim(key) # ""
           /\ \E i \in 1..Len(keys) :
                 keys[i].key = key /\ keys[i].provider = provider
           /\ AddKey(key, provider, label) )
         => /\ thrown' = Err(DuplicateMessage)
            /\ keys' = keys
            /\ persisted' = persisted]_vars

DuplicateRejectedWitness ==
    /\ thrown = Err(DuplicateMessage)
    /\ Len(keys) = 2
    /\ \A i \in 1..Len(keys) : ~keys[i].isEnabled

\* C10: no two credentials of the store have the same provider and the
\* same key material.
NoDuplicateKeyMaterial ==
    \A i, j \in 1..Len(keys) :
        (i # j /\ keys[i].provider = keys[j].provider) => keys[i].key # keys[j].key

\* C11: addKey with empty or blank key material throws the validation
\* error, also when the store holds a credential of that key material and
\* provider, and leaves store and record as they were.
EmptyKeyRejected ==
    [][\A key \in AddInputs, provider \in Providers, label \in Labels :
         (key \in {"", " "} /\ AddKey(key, provider, label))
         => /\ thrown' = Err(EmptyKeyMessage)
            /\ keys' = keys
            /\ persisted' = persisted]_vars

EmptyKeyRejectedWitness ==
    /\ thrown = Err(EmptyKeyMessage)
    /\ \E i \in 1..Len(keys) : keys[i].key = " " /\ keys[i].provider = "gemini"
    /\ \E i \in 1..Len(keys) : keys[i].key = "" /\ keys[i].provider = "elevenlabs"

\* the record rec is the JSON array of the credentials ks, field by field
RecordHolds(rec, ks) ==
    /\ rec.kind = "array"
    /\ Len(rec.entries) = Len(ks)
    /\ \A i \in 1..Len(ks) :
          /\ rec.entries[i].isObject
          /\ rec.entries[i].id = ks[i].id
          /\ rec.entries[i].key = ks[i].key
          /\ rec.entries[i].provider = ks[i].provider
          /\ rec.entries[i].label = ks[i].label
          /\ rec.entries[i].hasIsEnabled
          /\ rec.entries[i].isEnabled = ks[i].isEnabled

\* the label of a credential added without one: 'Key ', the first four
\* characters of the key material, '...'
DefaultLabel(key) ==
    CASE key = "A" -> "Key A..."
      [] key = "B" -> "Key B..."
      [] key = "sk-long-key" -> "Key sk-l..."

\* C12: addKey with key material that is not blank and not in the store for
\* the provider does not throw and appends one credential at the end: it
\* is enabled, has the given key material and provider, an identifier no
\* credential of the store had, and the given label or else the default
\* label; the credentials that were there keep their fields and order, and
\* the record is the new store.
AddAppends ==
    [][\A key \in AddInputs, provider \in Providers, label \in Labels :
         ( /\ key \notin {"", " "}
           /\ \A i \in 1..Len(keys) :
                 ~(keys[i].key = key /\ keys[i].provider = provider)
           /\ AddKey(key, provider, label) )
         => /\ thrown' = NullErr
            /\ Len(keys') = Len(keys) + 1
            /\ SubSeq(keys', 1, Len(keys)) = keys
            /\ keys'[Len(keys')].isEnabled
            /\ keys'[Len(keys')].key = key
            /\ keys'[Len(keys')].provider = provider
            /\ \A i \in 1..Len(keys) : keys[i].id # keys'[Len(keys')].id
            /\ keys'[Len(keys')].label =
                  IF label = "" THEN DefaultLabel(key) ELSE label
            /\ RecordHolds(persisted', keys')]_vars

AddAppendsWitness ==
    /\ thrown = NullErr
    /\ Len(keys) = 3
    /\ keys[1].id = "p1" /\ ~keys[1].isEnabled
    /\ keys[2].label = "Work"
    /\ keys[3].key = "sk-long-key" /\ keys[3].label = "Key sk-l..."
    /\ keys[3].isEnabled
    /\ RecordHolds(persisted, keys)

\* C13: toggleKeyStatus does not throw and flips the enabled flag of the
\* credentials with the identifier and of no other; with an identifier of
\* no credential the store stays as it was; and a second toggleKeyStatus
\* with the same identifier gives back the store of before the first.
ToggleTwice ==
    [][\A id \in IdInputs :
         ToggleKeyStatus(id)
         => /\ thrown' = NullErr
            /\ Len(keys') = Len(keys)
            /\ \A i \in 1..Len(keys) :
                  /\ keys'[i].isEnabled = IF keys[i].id = id
                                          THEN ~keys[i].isEnabled
                                          ELSE keys[i].isEnabled
                  /\ [keys'[i] EXCEPT !.isEnabled = keys[i].isEnabled] = keys[i]
            /\ (\A i \in 1..Len(keys) : keys[i].id # id) => keys' = keys
            /\ Toggled(keys', id) = keys]_vars

ToggleTwiceWitness ==
    /\ initRecord.kind = "array"
    /\ Len(keys) = 2
    /\ keys[1].id = "p1" /\ keys[2].id = "p2"
    /\ initRecord.entries[1].id = "p1" /\ ~initRecord.entries[1].isEnabled
    /\ keys[1].isEnabled
    /\ keys[2].isEnabled
    /\ RecordHolds(persisted, keys)

\* C14: removeKey does not throw; the store after it is the store of before
\* without the credentials of the identifier, the others unchanged and in
\* the same order; with an identifier of no credential the store stays as
\* it was; and a second removeKey with the same identifier changes nothing.
RemoveOnlyThat ==
    [][\A id \in IdInputs :
         RemoveKey(id)
         => LET others == {i \in 1..Len(keys) : keys[i].id # id}
            IN /\ thrown' = NullErr
               /\ Len(keys') = Cardinality(others)
               /\ \A i \in others :
                     keys'[Cardinality({j \in others : j <= i})] = keys[i]
               /\ others = 1..Len(keys) => keys' = keys
               /\ Removed(keys', id) = keys']_vars

RemoveOnlyThatWitness ==
    /\ initRecord.kind = "array"
    /\ Len(initRecord.entries) = 2
    /\ initRecord.entries[2].id = "p2"
    /\ Len(keys) = 2
    /\ keys[1].id = "p1"
    /\ keys[2].id = "key-1"
    /\ RecordHolds(persisted, keys)

\* after a store operation that returned normally: the record is the store,
\* and a store constructed on that record holds the same credentials in
\* the same order
SavedAndRestored ==
    thrown' = NullErr =>
        /\ RecordHolds(persisted', keys')
        /\ LoadKeys(persisted').keys = keys'

\* C15: after every addKey, removeKey and toggleKeyStatus that completed
\* the persisted record is the in-memory sequence of credentials, and a
\* new store initialized from that record holds the same credentials in
\* the same order.
SaveOnEveryMutation ==
    [][/\ \A key \in AddInputs, provider \in Providers, label \in Labels :
             AddKey(key, provider, label) => SavedAndRestored
       /\ \A id \in IdInputs : RemoveKey(id) => SavedAndRestored
       /\ \A id \in IdInputs : ToggleKeyStatus(id) => SavedAndRestored]_vars

\* an entry of a record that the cleanup of loadKeys is meant for
IsLegacy(e) ==
    e.isSystem \/ e.label = "System Default" \/ e.id = "sys-env-key"

\* the entries of the record rec that are credentials and not legacy ones
UserEntries(rec) ==
    SelectSeq(rec.entries, LAMBDA e : e.isObject /\ ~IsLegacy(e))

\* the store right after construction: a credential of the record that
\* lacks the enabled field is exposed by getKeys as enabled and the store
\* has been written to the record; a record none of whose entries is
\* purged or backfilled, or that is no array, has not been written
MigratedOnLoad ==
    /\ initRecord.kind = "array" =>
          /\ \A i \in 1..Len(UserEntries(initRecord)) :
                ~UserEntries(initRecord)[i].hasIsEnabled =>
                    /\ \E j \in 1..Len(GetKeys(UserEntries(initRecord)[i].provider)) :
                          LET k == GetKeys(UserEntries(initRecord)[i].provider)[j]
                          IN /\ k.key = UserEntries(initRecord)[i].key
                             /\ k.label = UserEntries(initRecord)[i].label
                             /\ k.isEnabled
                    /\ persisted # initRecord
                    /\ RecordHolds(persisted, keys)
          /\ (\A i \in 1..Len(initRecord.entries) :
                  /\ initRecord.entries[i].isObject
                  /\ ~IsLegacy(initRecord.entries[i])
                  /\ initRecord.entries[i].hasIsEnabled
                  /\ initRecord.entries[i].id # "")
             => persisted = initRecord
    /\ initRecord.kind # "array" => persisted = initRecord

\* a record the store has written carries the enabled field and an
\* identifier on every entry
WrittenRecordsMigrated ==
    persisted # initRecord =>
        /\ persisted.kind = "array"
        /\ \A i \in 1..Len(persisted.entries) :
              persisted.entries[i].hasIsEnabled /\ persisted.entries[i].id # ""

\* C16: after construction on a record that holds a credential without the
\* enabled field, getKeys exposes that credential with isEnabled true and
\* the migrated store has been written to the record; construction on a
\* record with nothing to backfill or purge writes nothing; and no record
\* the store writes later lacks the field.
LegacyMigration == MigratedOnLoad /\ []WrittenRecordsMigrated

LegacyMigrationWitness ==
    /\ initRecord.kind = "array"
    /\ Len(initRecord.entries) = 2
    /\ ~initRecord.entries[1].hasIsEnabled
    /\ initRecord.entries[1].id = "p1"
    /\ Len(keys) = 2
    /\ keys[1].id = "p1" /\ keys[1].isEnabled
    /\ keys[2].id = "p2" /\ ~keys[2].isEnabled
    /\ persisted # initRecord
    /\ RecordHolds(persisted, keys)
    /\ genCount = 0

\* the store ks and the record now, left by a construction on the record
\* rec: the store holds the entries of rec that are credentials without
\* legacy mark, all of them and in their order, and nothing else; and the
\* record now holds no entry with a legacy mark unless it is rec untouched
PurgeOf(rec, ks, now) ==
    rec.kind = "array" =>
        /\ Len(ks) = Len(UserEntries(rec))
        /\ \A i \in 1..Len(ks) :
              /\ ks[i].key = UserEntries(rec)[i].key
              /\ ks[i].provider = UserEntries(rec)[i].provider
              /\ ks[i].label = UserEntries(rec)[i].label
              /\ UserEntries(rec)[i].id # "" => ks[i].id = UserEntries(rec)[i].id
              /\ ks[i].label # "System Default"
              /\ ks[i].id # "sys-env-key"
        /\ now.kind = "array"
        /\ \A i \in 1..Len(now.entries) :
              now.entries[i].isObject /\ ~IsLegacy(now.entries[i])
        /\ Len(UserEntries(rec)) # Len(rec.entries) =>
              now # rec /\ RecordHolds(now, ks)

\* a store constructed on the record rec
PurgedOn(rec) == PurgeOf(rec, LoadKeys(rec).keys, LoadKeys(rec).persisted)

\* the store holds no entry with a legacy mark, neither does a record the
\* store has written, and a store constructed on a record the store has
\* written holds every credential of the store
NoLegacyEntry ==
    /\ \A i \in 1..Len(keys) :
          keys[i].label # "System Default" /\ keys[i].id # "sys-env-key"
    /\ persisted # initRecord =>
          /\ \A i \in 1..Len(persisted.entries) : ~IsLegacy(persisted.entries[i])
          /\ \A i \in 1..Len(keys) :
                \E j \in 1..Len(LoadKeys(persisted).keys) :
                    LoadKeys(persisted).keys[j] = keys[i]

\* C17: once the store is constructed, neither the store nor a record it
\* has written holds an entry flagged isSystem, labelled 'System Default'
\* or with the identifier 'sys-env-key', whatever operations have run; every
\* other credential of the record the store was constructed on is in the
\* store after construction, in the order of the record; and the same holds
\* for a store constructed on the record as it is now, which keeps every
\* credential of the store.
LegacyPurge == PurgedOn(initRecord) /\ PurgedOn(persisted) /\ NoLegacyEntry

\* C18: the identifiers of the credentials of the store are pairwise
\* distinct.
UniqueIdentifiers ==
    \A i, j \in 1..Len(keys) : i # j => keys[i].id # keys[j].id

\* the numbers a reader of the file finds at byte offset o
ReadUint16LE(bytes, o) == bytes[o + 1] + 256 * bytes[o + 2]

ReadUint32LE(bytes, o) ==
    bytes[o + 1] + 256 * bytes[o + 2] + 65536 * bytes[o + 3] + 16777216 * bytes[o + 4]

ReadInt16LE(bytes, o) ==
    IF ReadUint16LE(bytes, o) >= 32768
    THEN ReadUint16LE(bytes, o) - 65536
    ELSE ReadUint16LE(bytes, o)

\* pcmToWav has returned for the buffer [0.0, 0.5, -0.5, 1.0, -1.0] at
\* 24000 Hz mono
ExampleEncoded ==
    /\ pcmData = ExampleBuffer
    /\ sampleRate = 24000
    /\ numChannels = 1
    /\ wav # <<>>

\* C19 as stated: the example gives 54 bytes, 'RIFF' at offsets 0-3, 1 at
\* 22-23, 24000 at 24-27, and the int16 values 0 at offset 44, 32767 at
\* offset 48 and -32768 at offset 50.
ExampleBytesAsStated ==
    ExampleEncoded =>
        /\ Len(wav) = 54
        /\ SubSeq(wav, 1, 4) = <<82, 73, 70, 70>>
        /\ ReadUint16LE(wav, 22) = 1
        /\ ReadUint32LE(wav, 24) = 24000
        /\ ReadInt16LE(wav, 44) = 0
        /\ ReadInt16LE(wav, 48) = 32767
        /\ ReadInt16LE(wav, 50) = -32768

\* C19: the example gives 54 bytes, 'RIFF' at offsets 0-3, 1 at 22-23,
\* 24000 at 24-27, and the int16 values 0 at offset 44, 32767 at offset 50
\* (the sample 1.0, of index 3) and -32768 at offset 52 (the sample -1.0,
\* of index 4).
ExampleBytes ==
    ExampleEncoded =>
        /\ Len(wav) = 54
        /\ SubSeq(wav, 1, 4) = <<82, 73, 70, 70>>
        /\ ReadUint16LE(wav, 22) = 1
        /\ ReadUint32LE(wav, 24) = 24000
        /\ ReadInt16LE(wav, 44) = 0
        /\ ReadInt16LE(wav, 50) = 32767
        /\ ReadInt16LE(wav, 52) = -32768

ExampleBytesWitness ==
    /\ ExampleEncoded
    /\ Len(wav) = 54
    /\ ReadInt16LE(wav, 46) = 16383
    /\ ReadInt16LE(wav, 48) = -16384

\* the int16 of the sample s: s clamped to [-1, 1], times 32768 when
\* negative and times 32767 otherwise, the fraction dropped; 0 for NaN
ExpectedInt16(s) ==
    IF s.nan THEN 0
    ELSE IF s.q >= Den THEN 32767
    ELSE IF s.q <= -Den THEN -32768
    ELSE IF s.q < 0 THEN -((-s.q * 32768) \div Den)
    ELSE (s.q * 32767) \div Den

\* C20: the file has two bytes per sample after the 44 bytes of the header;
\* the int16 at offset 44 + 2i is that of the sample of index i: the
\* clamped sample times 32768 when negative and times 32767 otherwise; it
\* is the scaled number itself and not that number modulo 2^16: 32767 for
\* samples of 1.0 and above, -32768 for -1.0 and below, 0 for 0.
SampleEncoding ==
    wav # <<>> =>
        /\ Len(wav) = 44 + 2 * Len(pcmData)
        /\ \A i \in 1..Len(pcmData) :
              LET v == ReadInt16LE(wav, 44 + 2 * (i - 1))
              IN /\ v = ExpectedInt16(pcmData[i])
                 /\ v >= -32768 /\ v <= 32767
                 /\ (~pcmData[i].nan /\ pcmData[i].q >= Den) => v = 32767
                 /\ (~pcmData[i].nan /\ pcmData[i].q <= -Den) => v = -32768
                 /\ pcmData[i] = Sample(0) => v = 0
                 /\ (~pcmData[i].nan /\ pcmData[i].q < 0) => v < 0
                 /\ (~pcmData[i].nan /\ pcmData[i].q >= 0) => v >= 0

SampleEncodingWitness ==
    /\ wav # <<>>
    /\ pcmData = <<Sample(49152), Sample(-49152)>>
    /\ ReadInt16LE(wav, 44) = 32767
    /\ ReadInt16LE(wav, 46) = -32768

\* C21: the file of n samples at sample rate r with c channels has
\* 44 + 2n bytes; read as little-endian numbers, offset 4 holds 36 + 2n,
\* offset 20 the format 1, offset 22 c, offset 24 r, offset 28 r * c * 2,
\* offset 32 c * 2, offset 34 the bit depth 16 and offset 40 2n.
HeaderFields ==
    wav # <<>> =>
        /\ Len(wav) = 44 + 2 * Len(pcmData)
        /\ ReadUint32LE(wav, 4) = 36 + 2 * Len(pcmData)
        /\ ReadUint16LE(wav, 20) = 1
        /\ ReadUint16LE(wav, 22) = numChannels
        /\ ReadUint32LE(wav, 24) = sampleRate
        /\ ReadUint32LE(wav, 28) = sampleRate * numChannels * 2
        /\ ReadUint16LE(wav, 32) = numChannels * 2
        /\ ReadUint16LE(wav, 34) = 16
        /\ ReadUint32LE(wav, 40) = 2 * Len(pcmData)

HeaderFieldsWitness ==
    /\ wav # <<>>
    /\ Len(pcmData) = 2
    /\ sampleRate = 44100
    /\ numChannels = 2
    /\ SubSeq(wav, 25, 32) = <<68, 172, 0, 0, 16, 177, 2, 0>>
    /\ Len(wav) = 48

\* C22: decodeAudioData of a payload of 2k bytes resolves with k samples,
\* the sample of index i being the signed little-endian 16-bit integer at
\* bytes 2i and 2i + 1 divided by 32768; the bytes 0, 64 of the integer
\* 16384 give 0.5 exactly; and every sample is in [-1.0, 1.0).
DecodeScaling ==
    (speech.pc \in {"ready", "returned", "thrown"} /\ Len(payload) % 2 = 0
        /\ payload # <<>>) =>
        /\ speech.pc # "thrown"
        /\ Len(pcmData) * 2 = Len(payload)
        /\ \A i \in 1..Len(pcmData) :
              /\ ~pcmData[i].nan
              /\ pcmData[i].q * 32768 = ReadInt16LE(payload, 2 * (i - 1)) * Den
              /\ pcmData[i].q >= -Den
              /\ pcmData[i].q < Den
              /\ SubSeq(payload, 2 * i - 1, 2 * i) = <<0, 64>> =>
                    pcmData[i].q * 2 = Den

DecodeScalingWitness ==
    /\ speech.pc = "ready"
    /\ payload = <<0, 64, 0, 128>>
    /\ base64Audio = <<0, 4, 0, 0, 32, 0, Pad, Pad>>
    /\ pcmData = <<Sample(16384), Sample(-32768)>>

\* C28: when the speech operation has returned, the file is that of
\* 24000 Hz mono with one sample per 16-bit integer v of the payload, and
\* the integer written for v is v when v <= 0 and v - 1 when v > 0; the
\* data bytes are the payload exactly when no sample of it is positive.
RoundTrip ==
    speech.pc = "returned" =>
        /\ Len(wav) = 44 + Len(payload)
        /\ ReadUint16LE(wav, 22) = 1
        /\ ReadUint32LE(wav, 24) = 24000
        /\ \A i \in 1..(Len(payload) \div 2) :
              LET v == ReadInt16LE(payload, 2 * (i - 1))
              IN ReadInt16LE(wav, 44 + 2 * (i - 1)) = IF v <= 0 THEN v ELSE v - 1
        /\ (SubSeq(wav, 45, Len(wav)) = payload) <=>
              \A i \in 1..(Len(payload) \div 2) :
                  ReadInt16LE(payload, 2 * (i - 1)) <= 0

RoundTripWitness ==
    /\ speech.pc = "returned"
    /\ payload = <<255, 127, 0, 128>>
    /\ SubSeq(wav, 45, 48) = <<254, 127, 0, 128>>

\* C23: every credential of the store has one of the supported providers.
ProviderFromClosedSet ==
    \A i \in 1..Len(keys) : keys[i].provider \in {"gemini", "elevenlabs"}

\* C24: any failure of an attempt triggers rotation. Whatever value the
\* attempt rejects with (an error, a null rejection value, even an error
\* carrying the no-keys text), the step is the same for every rejection
\* value: when an enabled credential of the pool computed at the start of
\* the call is still untried, the next attempt is made, with the next
\* credential of that pool; the call throws only when none is left.
AnyFailureRotates ==
    [][\A s \in Slots : LET call == calls[s] IN
       \A i \in call.inflight : \A error \in Rejections(call.provider) :
          AttemptRejects(s, i, error) =>
              IF Len(call.attempts) < Len(PoolAtCall(call))
              THEN /\ call'.pc = "await"
                   /\ call'.attempts =
                          Append(call.attempts, PoolAtCall(call)[Len(call.attempts) + 1])
                   /\ call'.inflight = {Len(call.attempts) + 1}
                   /\ call'.lastFailure = error
              ELSE call'.pc = "thrown"]_vars

\* an attempt made after a null rejection, and one made after a rejection
\* carrying the no-keys text
AnyFailureRotatesWitness ==
    \E s \in Slots : LET call == calls[s] IN
    /\ call.pc = "await"
    /\ Len(call.attempts) = Len(call.settled) + 1
    /\ Len(call.settled) >= 1
    /\ call.lastFailure \in {NullErr, Err(NoKeysMessage(call.provider))}

\* C26: the keys one call tries are fixed by the store contents at the moment
\* the call starts. While an attempt is suspended, addKey, removeKey and
\* toggleKeyStatus change the store but nothing of the call; every further
\* attempt of the call uses the next key of the pool computed from the store
\* as it was at the start, the call throws only when that pool is used up,
\* and a call that starts afterwards computes its pool from the store as it
\* is then.
PoolFixedAtCallStart ==
    [][\A s \in Slots : LET call == calls[s] IN
       /\ (call.pc = "await" /\ keys' # keys) => call' = call
       /\ (call.pc = "await" /\ call' # call) =>
              /\ call'.keysAtCall = call.keysAtCall
              /\ call'.pc = "await" =>
                     /\ Len(call.attempts) < Len(PoolAtCall(call))
                     /\ call'.attempts =
                            Append(call.attempts, PoolAtCall(call)[Len(call.attempts) + 1])
              /\ call'.pc = "thrown" => call.attempts = PoolAtCall(call)
              /\ call'.pc = "returned" => call'.attempts = call.attempts
       /\ (call.pc # "await" /\ call' # call) =>
              /\ call'.keysAtCall = keys
              /\ IF LivePool(call'.provider) = <<>>
                 THEN call'.pc = "thrown" /\ call'.attempts = <<>>
                 ELSE /\ call'.pc = "await"
                      /\ call'.attempts = <<LivePool(call'.provider)[1]>>]_vars

\* an attempt has failed and the attempt made next, which is under way,
\* uses the key of a credential that was disabled or removed while the call
\* was suspended; a credential of the pool is still untried
PoolFixedAtCallStartWitness ==
    \E s \in Slots : LET call == calls[s] IN
    /\ call.pc = "await"
    /\ midCallOps >= 1
    /\ Len(call.settled) >= 1
    /\ Len(call.attempts) = Len(call.settled) + 1
    /\ Len(call.attempts) < Len(PoolAtCall(call))
    /\ \A j \in 1..Len(LivePool(call.provider)) :
           LivePool(call.provider)[j] # call.attempts[Len(call.attempts)]

\* C27: executeWithRotation never changes the credential store or the
\* persisted record. Every step of a call (its start, an attempt that
\* resolves, an attempt that rejects) leaves the store and the record as
\* they were, so a credential whose attempt failed stays enabled at its
\* position; and a call that starts while the store is as it was when
\* another call for the same provider started, whether that call is still
\* awaited or has ended, has the same pool and starts with the same first
\* enabled credential.
RotationLeavesStoreAlone ==
    [][\A s \in Slots : LET call == calls[s] IN
       call' # call =>
          /\ keys' = keys
          /\ persisted' = persisted
          /\ call.pc # "await" =>
                 \A t \in Slots :
                    (/\ calls[t].pc # "idle"
                     /\ calls[t].provider = call'.provider
                     /\ calls[t].keysAtCall = keys) =>
                        /\ call'.availableKeys = calls[t].availableKeys
                        /\ calls[t].attempts # <<>> =>
                               /\ call'.attempts # <<>>
                               /\ call'.attempts[1] = calls[t].attempts[1]]_vars

\* every credential of the pool of one call has failed, the store is as it
\* was when that call started, and another call for the provider has
\* started with the credential that call tried first
RotationLeavesStoreAloneWitness ==
    \E s, t \in Slots :
    /\ s # t
    /\ calls[s].pc = "thrown"
    /\ calls[s].failure = "AllAttemptsFailed"
    /\ Len(calls[s].attempts) >= 2
    /\ calls[s].keysAtCall = keys
    /\ LivePool(calls[s].provider) = calls[s].attempts
    /\ persisted = SaveKeys(keys)
    /\ calls[t].pc = "await"
    /\ calls[t].provider = calls[s].provider
    /\ calls[t].keysAtCall = keys
    /\ calls[t].attempts = <<calls[s].attempts[1]>>

\* the persisted records the store cannot read
Unreadable(rec) == rec.kind \in {"unparsable", "notArray"}

\* C29: store initialization never throws. With no persisted record the
\* store starts empty and nothing is written; with a record that cannot be
\* parsed or is not an array the store starts empty and the record is left
\* as it was. Such a record then stays as it is, also through an addKey
\* that is rejected, until an addKey that is accepted, a removeKey or a
\* toggleKeyStatus runs, which replaces it by the in-memory store.
InitializationNeverThrows ==
    /\ /\ thrown = NullErr
       /\ (initRecord.kind = "absent" \/ Unreadable(initRecord)) =>
              keys = <<>> /\ persisted = initRecord
    /\ [][(Unreadable(initRecord) /\ persisted = initRecord) =>
             /\ \A a \in StoreAdds : AddKey(a[1], a[2], a[3]) =>
                    IF thrown' = NullErr
                    THEN persisted' = Stringify(keys') /\ keys' # <<>>
                    ELSE persisted' = initRecord
             /\ \A id \in IdInputs :
                    (RemoveKey(id) \/ ToggleKeyStatus(id)) =>
                        persisted' = Stringify(keys')]_vars

\* the store was constructed on a record it cannot read, and a store
\* operation has replaced the record by the (still empty) in-memory store
InitializationNeverThrowsWitness ==
    /\ Unreadable(initRecord)
    /\ keys = <<>>
    /\ persisted = Stored(<<>>)
    /\ thrown = NullErr

\* identifiers of the segments of a list that have no audio, in list order
RECURSIVE IdsWithoutAudio(_)
IdsWithoutAudio(segs) ==
    IF segs = <<>> THEN <<>>
    ELSE (IF Head(segs).audioUrl = NoUrl THEN <<Head(segs).id>> ELSE <<>>)
         \o IdsWithoutAudio(Tail(segs))

\* C25: generate-all-audio processes the segments that had no audio when it
\* started, one at a time in list order. The generations started so far are
\* a prefix of those segments; a generation starts only when every one
\* before it has finished, with success or with failure, and after the
\* delay, so at most one of them is under way, the one whose call the batch
\* awaits, whatever the other handlers do meanwhile; a failure does not end
\* the batch, which is over only when every one of those segments was
\* processed; and the flag is set exactly while the batch runs.
BatchSequential ==
    /\ [](/\ generatingAllAudio <=> batch.pc # "idle"
          /\ Len(batch.started) <= Len(batch.pendingSegments)
          /\ batch.started = SubSeq(batch.pendingSegments, 1, Len(batch.started))
          /\ Len(batch.done) =
                 IF batch.pc = "generating" THEN Len(batch.started) - 1
                                            ELSE Len(batch.started)
          /\ batch.pc = "idle" => Len(batch.done) = Len(batch.pendingSegments)
          /\ batch.pc # "generating" => batch.slot = 0
          /\ batch.pc = "generating" =>
                 /\ batch.slot \in Slots
                 /\ calls[batch.slot].pc = "await"
                 /\ calls[batch.slot].caller =
                        Caller("audio", batch.started[Len(batch.started)]))
    /\ [][/\ (~generatingAllAudio /\ batch' # batch) =>
              /\ batch'.pendingSegments = IdsWithoutAudio(segments)
              /\ generatingAllAudio' <=> IdsWithoutAudio(segments) # <<>>
          /\ (generatingAllAudio /\ batch'.started # batch.started) =>
              /\ batch.pc = "delay"
              /\ Len(batch.done) = Len(batch.started)
              /\ batch'.pendingSegments = batch.pendingSegments]_vars

\* a batch over the two segments of an analysis has ended: the first
\* generation failed, the second one succeeded, and the flag is clear again
BatchSequentialWitness ==
    /\ batch.pc = "idle"
    /\ batch.done = <<FALSE, TRUE>>
    /\ ~generatingAllAudio
    /\ Len(segments) = 2
    /\ batch.pendingSegments = <<segments[1].id, segments[2].id>>
    /\ segments[1].audioUrl = NoUrl
    /\ segments[2].audioUrl # NoUrl

\* identifiers of the credentials of a store
IdsOf(ks) == {ks[i].id : i \in 1..Len(ks)}

\* a step removes a credential only as a click on its delete control while
\* the confirmation for that credential is pending
RemovedOnlyWhenConfirmed ==
    ~(IdsOf(keys) \subseteq IdsOf(keys')) =>
        /\ deleteConfirmId # NoConfirm
        /\ HandleDeleteClick(deleteConfirmId)
        /\ IdsOf(keys') = IdsOf(keys) \ {deleteConfirmId}

\* a click on a delete control that is not armed only arms the confirmation
FirstClickOnlyArms ==
    \A id \in IdsListed :
        (HandleDeleteClick(id) /\ deleteConfirmId # id) =>
            /\ keys' = keys /\ persisted' = persisted
            /\ deleteConfirmId' = id

\* a step ends a pending confirmation only in one of the ways listed: its
\* timeout is over, the delete control of another credential is clicked,
\* the manager is opened again, the tab changes, or the credential is
\* deleted by the confirming click
ClearedOnlyAsListed ==
    (deleteConfirmId # NoConfirm /\ deleteConfirmId' # deleteConfirmId) =>
        \/ TimerFires /\ confirmAge = ConfirmTimeout
        \/ deleteConfirmId' # NoConfirm /\ HandleDeleteClick(deleteConfirmId')
        \/ isApiModalOpen' /\ ~isApiModalOpen
        \/ activeTab' # activeTab
        \/ HandleDeleteClick(deleteConfirmId)

\* C30: in the API key manager a credential is removed only by a click on
\* its delete control while the confirmation for that credential is
\* pending; a first click only arms the confirmation; and the confirmation
\* is cleared 3 seconds after it was armed, by a click on the delete control
\* of another credential, when the manager is opened again or when the tab
\* changes, and in no other way.
TwoClickDelete ==
    [][RemovedOnlyWhenConfirmed /\ FirstClickOnlyArms /\ ClearedOnlyAsListed]_vars

\* the removal part alone: no step removes a credential whose
\* confirmation is not pending, and a first click only arms
NoUnconfirmedRemoval ==
    [][RemovedOnlyWhenConfirmed /\ FirstClickOnlyArms]_vars

====
